---- MODULE Spec2Model ----
(***************************************************************************)
(* A model of the virtual-bucket worker: the cluster index manager         *)
(* (src/src/core/cluster.ts) and the signature verifier                    *)
(* (src/src/core/auth.ts), driven by the request router                    *)
(* (src/unnamed/part_000, lines 155-353).                                  *)
(*                                                                         *)
(* Strings that the code inspects character by character (object keys,     *)
(* prefixes, delimiters, entity tags) are sequences of one-character       *)
(* strings.  The cluster index, a JavaScript object whose own keys keep    *)
(* their insertion order, is a sequence of entries with distinct keys.     *)
(***************************************************************************)
EXTENDS Integers, Sequences, FiniteSets, TLC

VARIABLES
    kv,        \* BUCKET_STATE_KV under KV_KEY: [has, val]
    store,     \* the backends' contents: store[b][k] is the version stack of k on b
    now,       \* the clock (Date.now()); one tick per request
    strategy,  \* env.UPLOAD_STRATEGY
    memo,      \* inMemoryIndex of the ClusterManager of the last request: [has, val]
    resp,      \* what the last request was and how it was answered
    trace,     \* the backend and index-store calls of the last request, in order
    purged,    \* history: <<k, b>> physically deleted from b and not written to b since
    call,      \* the arguments of the pure operation under check
    result     \* its result

vars == <<kv, store, now, strategy, memo, resp, trace, purged, call, result>>

----------------------------------------------------------------------------
(* Configuration and bounds *)

\* parseBucketsConfig(env.BUCKETS_CONFIG): the backend names in registration order.
Configs == <<"A", "B">>

\* Backends that keep object versions (Backblaze B2); the others overwrite in place.
Versioned == {"A"}

\* (parseFloat(env.MAX_BUCKET_SIZE_GB) || 10) * 1024^3, scaled down to a few bytes.
maxBytes == 3

\* The number of requests of a behaviour.
MaxClock == 3

\* The largest Content-Length of an upload.
MaxSize == 2

Keys == {<<"x">>, <<"y">>}

\* The Content-Length of an upload: a few bytes, or as much as the ceiling.
Sizes == (1..MaxSize) \cup {maxBytes}

Strategies == {"fill-first", "balanced"}

\* The double quote character of an ETag header.
Q == "q"

\* The entity tag a backend gives the object written at time t, as it stands in
\* the ETag header and in a listing: a quoted fingerprint.
ETagOf(t) == <<Q, ToString(t), Q>>

\* A missing (or empty) header or field.
NoHeader == <<>>

\* The literal 'unknown' of putObject.
Unknown == <<"u", "n", "k", "n", "o", "w", "n">>

\* How a backend DELETE ends: a 2xx answer, a non-2xx answer, or fetch throwing.
Outcomes == {"ok", "err", "throw"}

\* How a backend PUT ends: a 2xx answer or not (putObject throws on a non-2xx
\* answer, so a throwing fetch ends the request the same way).
PutOutcomes == {"ok", "err"}

NoVer == 0

NoBucket == "null"

NoKey == <<>>

----------------------------------------------------------------------------
(* Sequences *)

Range(s) == {s[i] : i \in 1..Len(s)}

RECURSIVE SumSeq(_)
SumSeq(s) == IF s = <<>> THEN 0 ELSE Head(s) + SumSeq(Tail(s))

\* A faulty sort: elements of equal rank come out in reverse order.
SortByRankUnstable(s, rank) ==
    LET n == Len(s)
        Pos(i) == 1 + Cardinality({j \in 1..n : rank[j] < rank[i]})
                    + Cardinality({j \in (i + 1)..n : rank[j] = rank[i]})
    IN  [p \in 1..n |-> s[CHOOSE i \in 1..n : Pos(i) = p]]

\* Array.prototype.sort on the sort keys rank[i] of s[i], ascending.  The sort
\* is stable: s[i] lands after every element of smaller rank and after the
\* earlier elements of equal rank.
SortByRank(s, rank) ==
    LET n == Len(s)
        Pos(i) == 1 + Cardinality({j \in 1..n : rank[j] < rank[i]})
                    + Cardinality({j \in 1..(i - 1) : rank[j] = rank[i]})
    IN  [p \in 1..n |-> s[CHOOSE i \in 1..n : Pos(i) = p]]

----------------------------------------------------------------------------
(* The cluster index: ClusterIndex = Record<string, FileMetadata> *)

NoEntry == [key |-> NoKey, bucket |-> NoBucket, size |-> 0, lastModified |-> 0,
            etag |-> <<>>, versionId |-> NoVer]

IndexKeys(index) == {index[i].key : i \in 1..Len(index)}

\* index[key] || null
IndexGet(index, key) ==
    IF key \in IndexKeys(index)
    THEN index[CHOOSE i \in 1..Len(index) : index[i].key = key]
    ELSE NoEntry

\* A faulty write: the entry of an own key is kept as it is.
IndexSetKeepingFirst(index, meta) ==
    IF meta.key \in IndexKeys(index) THEN index ELSE Append(index, meta)

\* index[key] = meta: an own key keeps its place, a new one goes last.
IndexSet(index, meta) ==
    IF meta.key \in IndexKeys(index)
    THEN [i \in 1..Len(index) |-> IF index[i].key = meta.key THEN meta ELSE index[i]]
    ELSE Append(index, meta)

\* delete index[key]
IndexDelete(index, key) ==
    LET Keep(e) == e.key # key IN SelectSeq(index, Keep)

----------------------------------------------------------------------------
(* Placement *)

\* The bytes the index records on bucket `name`.
UsageOf(index, name) ==
    SumSeq([j \in 1..Len(index) |->
               IF index[j].bucket = name THEN index[j].size ELSE 0])

\* bucketUsage of selectBucketForUpload as the list of its entries: a Map keeps
\* insertion order, so the registered names come first, in registration order,
\* then every other bucket name an index entry carries, in index order.
BucketUsage(configs, index) ==
    LET Registered == Range(configs)
        First(j) == /\ index[j].bucket \notin Registered
                    /\ \A l \in 1..(j - 1) : index[l].bucket # index[j].bucket
        extra == SelectSeq([j \in 1..Len(index) |-> j], First)
        names == configs \o [i \in 1..Len(extra) |-> index[extra[i]].bucket]
    IN  [i \in 1..Len(names) |->
            [name |-> names[i], usage |-> UsageOf(index, names[i])]]

\* usageList.sort((a, b) => a.usage - b.usage)
SortByUsage(usageList) ==
    SortByRank(usageList, [i \in 1..Len(usageList) |-> usageList[i].usage])

\* A faulty find: a backend exactly at the ceiling after the write is accepted.
FindCandidateAtCeiling(usageList, fileSize, maxB) ==
    LET Fits(i) == usageList[i].usage + fileSize <= maxB
    IN  IF \E i \in 1..Len(usageList) : Fits(i)
        THEN CHOOSE i \in 1..Len(usageList) :
                 Fits(i) /\ \A j \in 1..(i - 1) : ~Fits(j)
        ELSE 0

\* A faulty find: the size of the upload is left out of the comparison.
FindCandidateIgnoringSize(usageList, fileSize, maxB) ==
    LET Fits(i) == usageList[i].usage < maxB
    IN  IF \E i \in 1..Len(usageList) : Fits(i)
        THEN CHOOSE i \in 1..Len(usageList) :
                 Fits(i) /\ \A j \in 1..(i - 1) : ~Fits(j)
        ELSE 0

\* usageList.find(u => u.usage + fileSize < maxBytes): its place, 0 for undefined.
FindCandidate(usageList, fileSize, maxB) ==
    LET Fits(i) == usageList[i].usage + fileSize < maxB
    IN  IF \E i \in 1..Len(usageList) : Fits(i)
        THEN CHOOSE i \in 1..Len(usageList) :
                 Fits(i) /\ \A j \in 1..(i - 1) : ~Fits(j)
        ELSE 0

\* A faulty selection: the usage list is sorted whatever the strategy.
SelectBucketAlwaysSorting(configs, index, fileSize, strat, maxB) ==
    LET sorted == SortByUsage(BucketUsage(configs, index))
        i == FindCandidate(sorted, fileSize, maxB)
    IN  IF i = 0 THEN NoBucket ELSE sorted[i].name

\* selectBucketForUpload(fileSize) over a loaded index: NoBucket is null.
SelectBucketForUpload(configs, index, fileSize, strat, maxB) ==
    LET usageList == BucketUsage(configs, index)
        sorted == IF strat = "balanced" THEN SortByUsage(usageList) ELSE usageList
        i == FindCandidate(sorted, fileSize, maxB)
    IN  IF i = 0 THEN NoBucket ELSE sorted[i].name

----------------------------------------------------------------------------
(* Listing *)

\* The UTF-16 code unit of a character.
Code(ch) ==
    CASE ch = "/" -> 47
      [] ch = "a" -> 97
      [] ch = "b" -> 98
      [] ch = "c" -> 99
      [] ch = "d" -> 100
      [] ch = "x" -> 120
      [] ch = "y" -> 121

\* a < b as strings: by code units, a proper prefix first.
RECURSIVE LexLess(_, _)
LexLess(a, b) ==
    IF b = <<>> THEN FALSE
    ELSE IF a = <<>> THEN TRUE
    ELSE IF Head(a) # Head(b) THEN Code(Head(a)) < Code(Head(b))
    ELSE LexLess(Tail(a), Tail(b))

\* key.startsWith(prefix)
StartsWith(key, prefix) ==
    /\ Len(prefix) <= Len(key)
    /\ SubSeq(key, 1, Len(prefix)) = prefix

\* s.indexOf(d): the first place d occurs in s, counted from 0; -1 for none.
IndexOf(s, d) ==
    LET At(i) == SubSeq(s, i + 1, i + Len(d)) = d
        places == {i \in 0..(Len(s) - Len(d)) : At(i)}
    IN  IF places = {} THEN -1
        ELSE CHOOSE i \in places : \A j \in places : i <= j

\* A faulty fold: the delimiter is cut off the common prefix.
SubFolderWithoutDelimiter(prefix, relativePath, delimiter) ==
    prefix \o SubSeq(relativePath, 1, IndexOf(relativePath, delimiter))

\* prefix + relativePath.substring(0, dIndex + delimiter.length)
SubFolder(prefix, relativePath, delimiter) ==
    prefix \o SubSeq(relativePath, 1, IndexOf(relativePath, delimiter) + Len(delimiter))

\* A faulty sort: oldest first.
SortContentsOldestFirst(contents) ==
    SortByRank(contents, [i \in 1..Len(contents) |-> contents[i].LastModified])

\* contents.sort((a, b) => b.LastModified.getTime() - a.LastModified.getTime())
SortContents(contents) ==
    SortByRank(contents, [i \in 1..Len(contents) |-> 0 - contents[i].LastModified])

\* Array.from(commonPrefixes).sort(): the strings of a Set in code-unit order.
SortStrings(set) ==
    LET Pos(a) == 1 + Cardinality({b \in set : LexLess(b, a)})
    IN  [p \in 1..Cardinality(set) |-> CHOOSE a \in set : Pos(a) = p]

\* aggregateList(prefix, delimiter) over a loaded index; <<>> is no delimiter.
AggregateList(index, prefix, delimiter) ==
    LET Matches(e) == StartsWith(e.key, prefix)
        Rel(e) == SubSeq(e.key, Len(prefix) + 1, Len(e.key))
        Folds(e) == delimiter # <<>> /\ IndexOf(Rel(e), delimiter) >= 0
        IsFolded(e) == Matches(e) /\ Folds(e)
        IsRow(e) == Matches(e) /\ ~Folds(e)
        rows == SelectSeq(index, IsRow)
        contents == [i \in 1..Len(rows) |->
                        [Key |-> rows[i].key, LastModified |-> rows[i].lastModified,
                         ETag |-> rows[i].etag, Size |-> rows[i].size,
                         StorageClass |-> "STANDARD"]]
        commonPrefixes == {SubFolder(prefix, Rel(e), delimiter) :
                              e \in Range(SelectSeq(index, IsFolded))}
    IN  [contents |-> SortContents(contents),
         commonPrefixes |-> SortStrings(commonPrefixes)]

----------------------------------------------------------------------------
(* The backends: what an S3-compatible store does with the calls the code    *)
(* issues.  A version-keeping backend stacks versions, the last one current. *)

Backends == Range(Configs)

Version(ver, size, etag, t, marker) ==
    [ver |-> ver, size |-> size, etag |-> etag, lastModified |-> t, marker |-> marker]

\* PUT /bucket/key answered 2xx.
BackendPut(st, b, k, size, t) ==
    IF b \in Versioned
    THEN [st EXCEPT ![b][k] = Append(@, Version(t, size, ETagOf(t), t, FALSE))]
    ELSE [st EXCEPT ![b][k] = <<Version(NoVer, size, ETagOf(t), t, FALSE)>>]

\* The x-amz-version-id header of that answer.
VersionHeader(b, t) == IF b \in Versioned THEN t ELSE NoVer

\* DELETE /bucket/key[?versionId=] answered 2xx: with a version id the version
\* is removed for good, without one a version-keeping backend only stacks a
\* hide marker.
BackendDelete(st, b, k, ver, t) ==
    LET Keep(v) == v.ver # ver
    IN  IF b \notin Versioned THEN [st EXCEPT ![b][k] = <<>>]
        ELSE IF ver # NoVer THEN [st EXCEPT ![b][k] = SelectSeq(@, Keep)]
        ELSE [st EXCEPT ![b][k] = Append(@, Version(t, 0, NoHeader, t, TRUE))]

\* GET /bucket/key returns an object: the current version exists and is no marker.
Retrievable(st, b, k) ==
    /\ st[b][k] # <<>>
    /\ ~st[b][k][Len(st[b][k])].marker

\* The entries of a ?versions listing of b that are flagged IsLatest, in key order.
KeyOrder == <<<<"x">>, <<"y">>>>

LatestVersions(st, b) ==
    LET Listed(k) == Retrievable(st, b, k)
        ks == SelectSeq(KeyOrder, Listed)
    IN  [i \in 1..Len(ks) |->
            LET v == st[b][ks[i]][Len(st[b][ks[i]])]
            IN  [key |-> ks[i], bucket |-> b, size |-> v.size,
                 lastModified |-> v.lastModified, etag |-> v.etag,
                 versionId |-> v.ver]]

----------------------------------------------------------------------------
(* ClusterManager: index loading.  A context c carries the state one request *)
(* works on: the index store, the backends, the manager's inMemoryIndex, the *)
(* calls issued so far and the history of physical deletes.                  *)

Call(op, b, k, ver) == [op |-> op, b |-> b, k |-> k, ver |-> ver]

KvCall(op) == Call(op, NoBucket, NoKey, NoVer)

Null == [has |-> FALSE, val |-> <<>>]

Some(index) == [has |-> TRUE, val |-> index]

\* A faulty save: the index is kept in memory and never stored.
SaveIndexInMemoryOnly(c, index) == [c EXCEPT !.memo = Some(index)]

\* saveIndex(index)
SaveIndex(c, index) ==
    [c EXCEPT !.memo = Some(index), !.kv = Some(index),
              !.trace = Append(@, KvCall("kv.put"))]

RECURSIVE SetAll(_, _)
SetAll(index, metas) ==
    IF metas = <<>> THEN index
    ELSE SetAll(IndexSet(index, Head(metas)), Tail(metas))

RECURSIVE Listings(_, _, _)
Listings(st, order, fail) ==
    IF order = <<>> THEN <<>>
    ELSE (IF Head(order) \in fail THEN <<>> ELSE LatestVersions(st, Head(order)))
         \o Listings(st, Tail(order), fail)

\* What one rebuild leaves to chance: the order in which the backends' listing
\* tasks complete, and the backends whose listing call fails.
RebuildChoices ==
    {[order |-> o, fail |-> f] :
        o \in {p \in [1..Len(Configs) -> Backends] : Range(p) = Backends},
        f \in SUBSET Backends}

NoRebuild == [order |-> <<>>, fail |-> {}]

\* rebuildIndex(): every backend is listed (here in one page each), the entries
\* flagged latest are written into newIndex as the answers come in, then the
\* index is saved.
RebuildIndex(c, rb) ==
    LET newIndex == SetAll(<<>>, Listings(c.store, rb.order, rb.fail))
        listed == [c EXCEPT !.trace =
                      @ \o [i \in 1..Len(Configs) |-> Call("LIST", Configs[i], NoKey, NoVer)]]
    IN  SaveIndex(listed, newIndex)

\* A faulty load: every load rebuilds.
LoadIndexAlwaysRebuilding(c, forceRebuild, rb) == RebuildIndex(c, rb)

\* loadIndex(forceRebuild): memory, then the index store, then a rebuild.
LoadIndex(c, forceRebuild, rb) ==
    IF c.memo.has /\ ~forceRebuild THEN c
    ELSE IF forceRebuild THEN RebuildIndex(c, rb)
    ELSE LET got == [c EXCEPT !.trace = Append(@, KvCall("kv.get"))]
         IN  IF c.kv.has THEN [got EXCEPT !.memo = c.kv]
             ELSE RebuildIndex(got, rb)

\* The rebuild choices a load can meet.
LoadChoices(c) == IF c.memo.has \/ c.kv.has THEN {NoRebuild} ELSE RebuildChoices

\* locateFile(key), after the load
LocateFile(c, key) == IndexGet(c.memo.val, key)

----------------------------------------------------------------------------
(* ClusterManager: the operations that change a backend and the index *)

\* A faulty strip: the quotes are kept.
StripQuotesKept(etag) == etag

\* etag.replace(/"/g, '')
StripQuotes(etag) ==
    LET NotQuote(ch) == ch # Q IN SelectSeq(etag, NotQuote)

Thrown(c) == [c EXCEPT !.threw = TRUE]

\* A faulty delete: the version id is not put into the URL.
DeleteObjectUnversioned(c, bucketName, key, versionId, updateKV, out, t) ==
    IF bucketName \notin Backends THEN c
    ELSE
    LET sent == [c EXCEPT !.trace = Append(@, Call("DELETE", bucketName, key, NoVer))]
        answered == IF out = "ok"
                    THEN [sent EXCEPT
                            !.store = BackendDelete(@, bucketName, key, NoVer, t),
                            !.purged = @ \cup {<<key, bucketName>>}]
                    ELSE sent
        loaded == [answered EXCEPT !.memo = IF @.has THEN @ ELSE answered.kv]
        index == IndexDelete(loaded.memo.val, key)
    IN  IF out = "throw" THEN Thrown(sent)
        ELSE IF IndexGet(loaded.memo.val, key) = NoEntry THEN loaded
        ELSE IF updateKV THEN SaveIndex(loaded, index)
        ELSE [loaded EXCEPT !.memo = Some(index)]

\* A faulty delete: the index is saved whatever updateKV says.
DeleteObjectAlwaysSaving(c, bucketName, key, versionId, updateKV, out, t) ==
    IF bucketName \notin Backends THEN c
    ELSE
    LET sent == [c EXCEPT !.trace = Append(@, Call("DELETE", bucketName, key, versionId))]
        answered == IF out = "ok"
                    THEN [sent EXCEPT
                            !.store = BackendDelete(@, bucketName, key, versionId, t),
                            !.purged = @ \cup {<<key, bucketName>>}]
                    ELSE sent
        loaded == [answered EXCEPT !.memo = IF @.has THEN @ ELSE answered.kv]
        index == IndexDelete(loaded.memo.val, key)
    IN  IF out = "throw" THEN Thrown(sent)
        ELSE IF IndexGet(loaded.memo.val, key) = NoEntry THEN loaded
        ELSE SaveIndex(loaded, index)

\* deleteObject(bucketName, key, versionId, updateKV), the backend's DELETE
\* ending as `out` at time t.  The answer's status is not looked at.
DeleteObject(c, bucketName, key, versionId, updateKV, out, t) ==
    IF bucketName \notin Backends THEN c
    ELSE
    LET sent == [c EXCEPT !.trace = Append(@, Call("DELETE", bucketName, key, versionId))]
        answered == IF out = "ok"
                    THEN [sent EXCEPT
                            !.store = BackendDelete(@, bucketName, key, versionId, t),
                            !.purged = @ \cup {<<key, bucketName>>}]
                    ELSE sent
        loaded == LoadIndex(answered, FALSE, NoRebuild)
        index == IndexDelete(loaded.memo.val, key)
    IN  IF out = "throw" THEN Thrown(sent)
        ELSE IF LocateFile(loaded, key) = NoEntry THEN loaded
        ELSE IF updateKV THEN SaveIndex(loaded, index)
        ELSE [loaded EXCEPT !.memo = Some(index)]

\* A faulty upload: the status of the backend's answer is not looked at.
PutObjectIgnoringStatus(c, bucketName, key, size, withETag, out, t) ==
    IF bucketName \notin Backends THEN Thrown(c)
    ELSE
    LET sent == [c EXCEPT !.trace = Append(@, Call("PUT", bucketName, key, NoVer))]
        answered == IF out = "ok"
                    THEN [sent EXCEPT
                            !.store = BackendPut(@, bucketName, key, size, t),
                            !.purged = @ \ {<<key, bucketName>>}]
                    ELSE sent
        loaded == LoadIndex(answered, FALSE, NoRebuild)
        meta == [key |-> key, bucket |-> bucketName, size |-> size,
                 lastModified |-> t, etag |-> Unknown,
                 versionId |-> VersionHeader(bucketName, t)]
    IN  SaveIndex(loaded, IndexSet(loaded.memo.val, meta))

\* A faulty upload: the entry names the virtual bucket, not the backend.
PutObjectRecordingVirtualBucket(c, bucketName, key, size, withETag, out, t) ==
    IF bucketName \notin Backends THEN Thrown(c)
    ELSE
    LET sent == [c EXCEPT !.trace = Append(@, Call("PUT", bucketName, key, NoVer))]
        answered == [sent EXCEPT
                       !.store = BackendPut(@, bucketName, key, size, t),
                       !.purged = @ \ {<<key, bucketName>>}]
        loaded == LoadIndex(answered, FALSE, NoRebuild)
        meta == [key |-> key, bucket |-> "virtual-bucket", size |-> size,
                 lastModified |-> t, etag |-> Unknown,
                 versionId |-> VersionHeader(bucketName, t)]
    IN  IF out # "ok" THEN Thrown(sent)
        ELSE SaveIndex(loaded, IndexSet(loaded.memo.val, meta))

\* putObject(bucketName, key, body, headers) with Content-Length `size`, the
\* backend's PUT ending as `out` at time t, its answer carrying an ETag header
\* or not.
PutObject(c, bucketName, key, size, withETag, out, t) ==
    IF bucketName \notin Backends THEN Thrown(c)
    ELSE
    LET sent == [c EXCEPT !.trace = Append(@, Call("PUT", bucketName, key, NoVer))]
        answered == [sent EXCEPT
                       !.store = BackendPut(@, bucketName, key, size, t),
                       !.purged = @ \ {<<key, bucketName>>}]
        header == IF withETag THEN ETagOf(t) ELSE NoHeader
        etag == IF header = NoHeader THEN Unknown ELSE header
        loaded == LoadIndex(answered, FALSE, NoRebuild)
        meta == [key |-> key, bucket |-> bucketName, size |-> size,
                 lastModified |-> t, etag |-> StripQuotes(etag),
                 versionId |-> VersionHeader(bucketName, t)]
    IN  IF out # "ok" THEN Thrown(sent)
        ELSE SaveIndex(loaded, IndexSet(loaded.memo.val, meta))

\* clearIndex()
ClearIndexOp(c) ==
    [c EXCEPT !.kv = Null, !.memo = Null, !.trace = Append(@, KvCall("kv.delete"))]

----------------------------------------------------------------------------
(* The router: one request, handled from start to end by a new ClusterManager *)

Resp(method, key, status, prior, target, size, withETag, delOut, putOut, cold) ==
    [method |-> method, key |-> key, status |-> status, prior |-> prior,
     target |-> target, size |-> size, withETag |-> withETag,
     delOut |-> delOut, putOut |-> putOut, cold |-> cold]

NoResp == Resp("none", NoKey, 0, NoEntry, NoBucket, 0, FALSE, "none", "none", FALSE)

\* The state a request starts from: new ClusterManager(env).
C0 == [kv |-> kv, store |-> store, memo |-> Null, trace |-> <<>>,
       purged |-> purged, threw |-> FALSE]

Finish(c, r) ==
    /\ kv' = c.kv
    /\ store' = c.store
    /\ memo' = c.memo
    /\ trace' = c.trace
    /\ purged' = c.purged
    /\ resp' = r
    /\ now' = now + 1
    /\ UNCHANGED <<strategy, call, result>>

\* A faulty handler: the upload goes on without a target backend.
PutWithoutCapacityCheck(key, size) ==
    /\ now < MaxClock
    /\ \E rb \in LoadChoices(C0) :
        LET t == now + 1
            c1 == LoadIndex(C0, FALSE, rb)
            existing == LocateFile(c1, key)
        IN  \E delOut \in (IF existing = NoEntry THEN {"none"} ELSE Outcomes) :
            LET c2 == IF existing = NoEntry THEN c1
                      ELSE DeleteObject(c1, existing.bucket, key, existing.versionId,
                                        FALSE, delOut, t)
                targetBucket == SelectBucketForUpload(Configs, c2.memo.val, size,
                                                      strategy, maxBytes)
                R(status, target, withETag, putOut) ==
                    Resp("PUT", key, status, existing, target, size, withETag,
                         delOut, putOut, ~kv.has)
            IN  IF c2.threw THEN Finish(c2, R(500, NoBucket, FALSE, "none"))
                ELSE \E putOut \in PutOutcomes, withETag \in BOOLEAN :
                        /\ putOut # "ok" => ~withETag
                        /\ LET c3 == PutObject(c2, targetBucket, key, size, withETag,
                                               putOut, t)
                           IN  Finish(c3, R(IF c3.threw THEN 500 ELSE 200,
                                            targetBucket, withETag, putOut))

\* PUT /{key} with Content-Length size.
Put(key, size) ==
    /\ now < MaxClock
    /\ \E rb \in LoadChoices(C0) :
        LET t == now + 1
            c1 == LoadIndex(C0, FALSE, rb)
            existing == LocateFile(c1, key)
        IN  \E delOut \in (IF existing = NoEntry THEN {"none"} ELSE Outcomes) :
            LET c2 == IF existing = NoEntry THEN c1
                      ELSE DeleteObject(c1, existing.bucket, key, existing.versionId,
                                        FALSE, delOut, t)
                targetBucket == SelectBucketForUpload(Configs, c2.memo.val, size,
                                                      strategy, maxBytes)
                R(status, target, withETag, putOut) ==
                    Resp("PUT", key, status, existing, target, size, withETag,
                         delOut, putOut, ~kv.has)
            IN  IF c2.threw THEN Finish(c2, R(500, NoBucket, FALSE, "none"))
                ELSE IF targetBucket = NoBucket
                THEN Finish(c2, R(507, NoBucket, FALSE, "none"))
                ELSE \E putOut \in PutOutcomes, withETag \in BOOLEAN :
                        /\ putOut # "ok" => ~withETag
                        /\ LET c3 == PutObject(c2, targetBucket, key, size, withETag,
                                               putOut, t)
                           IN  Finish(c3, R(IF c3.threw THEN 500 ELSE 200,
                                            targetBucket, withETag, putOut))

\* DELETE /{key}
Delete(key) ==
    /\ now < MaxClock
    /\ \E rb \in LoadChoices(C0) :
        LET t == now + 1
            c1 == LoadIndex(C0, FALSE, rb)
            existing == LocateFile(c1, key)
        IN  \E delOut \in (IF existing = NoEntry THEN {"none"} ELSE Outcomes) :
            LET c2 == IF existing = NoEntry THEN c1
                      ELSE DeleteObject(c1, existing.bucket, key, existing.versionId,
                                        TRUE, delOut, t)
            IN  Finish(c2, Resp("DELETE", key, IF c2.threw THEN 500 ELSE 204,
                                existing, NoBucket, 0, FALSE, delOut, "none", ~kv.has))

\* DELETE /_cache
ClearIndex ==
    /\ now < MaxClock
    /\ Finish(ClearIndexOp(C0),
              Resp("CLEAR", NoKey, 200, NoEntry, NoBucket, 0, FALSE, "none", "none",
                   ~kv.has))

----------------------------------------------------------------------------
(* Specifications *)

Idle == [op |-> "none"]

\* Nothing on the backends, no request handled yet.
InitBase ==
    /\ store = [b \in Backends |-> [k \in Keys |-> <<>>]]
    /\ now = 0
    /\ memo = Null
    /\ resp = NoResp
    /\ trace = <<>>
    /\ purged = {}

InitRest ==
    /\ InitBase
    /\ strategy \in Strategies
    /\ call = Idle
    /\ result = Idle

\* A new deployment: nothing in the index store, nothing on the backends.
Init == kv = Null /\ InitRest

Next ==
    \/ \E key \in Keys, size \in Sizes : Put(key, size)
    \/ \E key \in Keys : Delete(key)
    \/ ClearIndex

Spec == Init /\ [][Next]_vars

\* The requests that write, from a persisted index: no clearIndex, no expiry.
InitWarm == kv = Some(<<>>) /\ InitRest

NextWarm ==
    \/ \E key \in Keys, size \in Sizes : Put(key, size)
    \/ \E key \in Keys : Delete(key)

SpecWarm == InitWarm /\ [][NextWarm]_vars

----------------------------------------------------------------------------
(* selectBucketForUpload and aggregateList as functions of the loaded index *)

\* The most entries of an index handed to selectBucketForUpload.
MaxSelEntries == 2

\* The most entries of an index handed to aggregateList.
MaxListEntries == 3

\* The latest modification time of a listed entry.
MaxTime == 2

SelectConfigs == {Configs, <<"A", "B", "C">>}

Meta(key, bucket, size, t) ==
    [key |-> key, bucket |-> bucket, size |-> size, lastModified |-> t,
     etag |-> <<"e">>, versionId |-> NoVer]

\* The indexes of at most MaxSelEntries entries on the backends of configs.
SelectIndexes(configs) ==
    UNION {{[i \in 1..n |-> Meta(<<"k", ToString(i)>>, f[i][1], f[i][2], i)] :
               f \in [1..n -> Range(configs) \X (0..MaxSize)]} : n \in 0..MaxSelEntries}

ListKeys == {<<"b">>, <<"a", "/", "b">>, <<"a", "/", "c", "/", "d">>,
             <<"b", "/", "a">>, <<"a", "/", "/", "b">>}

ListPrefixes == {<<>>, <<"a", "/">>, <<"b">>}

ListDelimiters == {<<>>, <<"/">>, <<"/", "/">>}

\* The indexes of at most MaxListEntries entries with distinct keys.
ListIndexes ==
    UNION {{[i \in 1..n |-> Meta(f[i][1], "A", 1, f[i][2])] :
               f \in {g \in [1..n -> ListKeys \X (1..MaxTime)] :
                         \A i, j \in 1..n : g[i][1] = g[j][1] => i = j}} :
           n \in 0..MaxListEntries}

InitSelect ==
    /\ kv = Null /\ InitBase
    /\ strategy = "fill-first"
    /\ \E configs \in SelectConfigs :
       \E index \in SelectIndexes(configs), fileSize \in 0..(MaxSize + 1),
          strat \in Strategies :
            call = [op |-> "select", configs |-> configs, index |-> index,
                    fileSize |-> fileSize, strat |-> strat]
    /\ result = Idle

ApplySelect ==
    /\ call.op = "select" /\ result.op = "none"
    /\ result' = [op |-> "select",
                  value |-> SelectBucketForUpload(call.configs, call.index,
                                                  call.fileSize, call.strat, maxBytes)]
    /\ UNCHANGED <<kv, store, now, strategy, memo, resp, trace, purged, call>>

SpecSelect == InitSelect /\ [][ApplySelect]_vars

InitList ==
    /\ kv = Null /\ InitBase
    /\ strategy = "fill-first"
    /\ \E index \in ListIndexes, prefix \in ListPrefixes, delimiter \in ListDelimiters :
            call = [op |-> "list", index |-> index, prefix |-> prefix,
                    delimiter |-> delimiter]
    /\ result = Idle

ApplyList ==
    /\ call.op = "list" /\ result.op = "none"
    /\ result' = [op |-> "list",
                  value |-> AggregateList(call.index, call.prefix, call.delimiter)]
    /\ UNCHANGED <<kv, store, now, strategy, memo, resp, trace, purged, call>>

SpecList == InitList /\ [][ApplyList]_vars

----------------------------------------------------------------------------
(* Properties of selectBucketForUpload *)

SelectDone == call.op = "select" /\ result.op = "select"

\* The registered backends on which the upload stays strictly below the ceiling.
Fitting ==
    {b \in Range(call.configs) : UsageOf(call.index, b) + call.fileSize < maxBytes}

Place(b) == CHOOSE i \in 1..Len(call.configs) : call.configs[i] = b

\* C2: selectBucketForUpload returns a backend only if its usage plus the size
\* is strictly below the ceiling, and null exactly when no registered backend
\* is in that case.
SelectStrictlyBelowCeiling ==
    SelectDone =>
        /\ result.value # NoBucket => result.value \in Fitting
        /\ result.value = NoBucket <=> Fitting = {}

\* Null although a backend would be exactly at the ceiling after the write.
SelectAtCeilingWitness ==
    /\ SelectDone
    /\ result.value = NoBucket
    /\ \E b \in Range(call.configs) :
          UsageOf(call.index, b) + call.fileSize = maxBytes

\* C3: under fill-first the backend returned is the first one in registration
\* order on which the upload fits.
FillFirstTakesFirstFitting ==
    (SelectDone /\ call.strat = "fill-first" /\ result.value # NoBucket) =>
        /\ result.value \in Fitting
        /\ \A b \in Fitting : Place(result.value) <= Place(b)

\* Backends A then B, A holding one object of two thirds of the ceiling: the
\* next upload of that size goes to B.
FillFirstWitness ==
    /\ SelectDone /\ call.strat = "fill-first"
    /\ call.configs = Configs
    /\ Len(call.index) = 1 /\ call.index[1].bucket = "A" /\ call.index[1].size = 2
    /\ call.fileSize = 2
    /\ result.value = "B"

\* C4: under balanced the backend returned has the least usage among those on
\* which the upload fits, and is the first registered of those with that usage.
BalancedTakesLeastUsed ==
    (SelectDone /\ call.strat = "balanced" /\ result.value # NoBucket) =>
        /\ result.value \in Fitting
        /\ \A b \in Fitting :
              \/ UsageOf(call.index, result.value) < UsageOf(call.index, b)
              \/ /\ UsageOf(call.index, result.value) = UsageOf(call.index, b)
                 /\ Place(result.value) <= Place(b)

\* Two backends tie for the least usage behind a fuller first one.
BalancedWitness ==
    /\ SelectDone /\ call.strat = "balanced"
    /\ call.configs = <<"A", "B", "C">>
    /\ UsageOf(call.index, "A") = 1
    /\ UsageOf(call.index, "B") = 0 /\ UsageOf(call.index, "C") = 0
    /\ call.fileSize = 1
    /\ result.value = "B"

----------------------------------------------------------------------------
(* Properties of aggregateList *)

ListDone == call.op = "list" /\ result.op = "list"

EndsWith(s, d) ==
    /\ Len(d) <= Len(s)
    /\ SubSeq(s, Len(s) - Len(d) + 1, Len(s)) = d

Contains(s, d) == \E i \in 0..(Len(s) - Len(d)) : SubSeq(s, i + 1, i + Len(d)) = d

\* C7: with a delimiter, every common prefix starts with the prefix and ends
\* with the delimiter, and no content row's key holds the delimiter after the
\* prefix.
ListingFold ==
    (ListDone /\ call.delimiter # <<>>) =>
        LET r == result.value
        IN  /\ \A i \in 1..Len(r.commonPrefixes) :
                  /\ StartsWith(r.commonPrefixes[i], call.prefix)
                  /\ EndsWith(r.commonPrefixes[i], call.delimiter)
            /\ \A i \in 1..Len(r.contents) :
                  /\ StartsWith(r.contents[i].Key, call.prefix)
                  /\ ~Contains(SubSeq(r.contents[i].Key, Len(call.prefix) + 1,
                                      Len(r.contents[i].Key)), call.delimiter)

\* A listing under a prefix that folds two keys into one common prefix and
\* returns a row.
ListingFoldWitness ==
    /\ ListDone
    /\ call.prefix = <<"a", "/">> /\ call.delimiter = <<"/">>
    /\ Len(call.index) = 3
    /\ result.value.commonPrefixes = <<<<"a", "/", "/">>, <<"a", "/", "c", "/">>>>
    /\ Len(result.value.contents) = 1

\* C8: the content rows come newest first and the common prefixes in strictly
\* ascending code-unit order (so without duplicates).
ListingOrder ==
    ListDone =>
        LET r == result.value
        IN  /\ \A i \in 1..(Len(r.contents) - 1) :
                  r.contents[i].LastModified >= r.contents[i + 1].LastModified
            /\ \A i \in 1..(Len(r.commonPrefixes) - 1) :
                  LexLess(r.commonPrefixes[i], r.commonPrefixes[i + 1])

\* Rows that the index holds oldest first, and two keys under one prefix.
ListingOrderWitness ==
    /\ ListDone
    /\ Len(call.index) = 3
    /\ call.index[1].lastModified < call.index[2].lastModified
    /\ Len(result.value.contents) = 2
    /\ result.value.contents[1].Key = call.index[2].key
    /\ Len(result.value.commonPrefixes) = 1

----------------------------------------------------------------------------
(* Properties of the requests handled one after another *)

\* What a new request's locateFile(key) returns in the current state.
FreshLocate(key) == LocateFile(LoadIndex(C0, FALSE, NoRebuild), key)

\* C1: placement ceiling.  With PUT (and DELETE) requests handled one after
\* another from a persisted index whose usages are below the ceiling, the bytes
\* the index records on each backend never exceed the ceiling, in the persisted
\* index and in the manager's copy.
PlacementCeiling ==
    /\ kv.has => \A b \in Backends : UsageOf(kv.val, b) <= maxBytes
    /\ memo.has => \A b \in Backends : UsageOf(memo.val, b) <= maxBytes

\* An upload was placed on B because A had no room for it.
PlacementCeilingWitness ==
    /\ resp.method = "PUT" /\ resp.status = 200 /\ resp.target = "B"
    /\ strategy = "fill-first"
    /\ resp.size > 0
    /\ UsageOf(kv.val, "A") + resp.size >= maxBytes

\* C5: round trip.  After a PUT answered 200, locateFile(key) in the same
\* manager and in a new request returns the backend written to, the size
\* written and the backend's ETag without its quotes.
RoundTrip ==
    (resp.method = "PUT" /\ resp.status = 200) =>
        LET e == IndexGet(memo.val, resp.key)
        IN  /\ memo.has /\ kv.has
            /\ FreshLocate(resp.key) = e
            /\ e.bucket = resp.target
            /\ e.size = resp.size
            /\ resp.withETag => e.etag = <<ToString(now)>>

\* An overwrite whose answer carried an ETag.
RoundTripWitness ==
    /\ resp.method = "PUT" /\ resp.status = 200 /\ resp.withETag
    /\ resp.prior # NoEntry
    /\ resp.prior.size # resp.size

\* A step that handles a DELETE of a key the loaded index has no entry for.
DeleteOfAbsentKey ==
    /\ now' = now + 1
    /\ resp'.method = "DELETE"
    /\ resp'.prior = NoEntry

\* C6 as stated: a DELETE of a key without an index entry is answered 204,
\* issues no physical delete and leaves the memoized and the persisted index
\* unchanged.
DeleteAbsentChangesNothing ==
    [][DeleteOfAbsentKey =>
          /\ resp'.status = 204
          /\ \A i \in 1..Len(trace') : trace'[i].op # "DELETE"
          /\ store' = store
          /\ kv' = kv
          /\ memo' = kv]_vars

\* C6, amended: the same when the index store holds an index as the request
\* starts; on an empty index store the request's load rebuilds the index and
\* persists it, and the DELETE changes nothing else.
DeleteAbsentIsNoOp ==
    [][DeleteOfAbsentKey =>
          /\ resp'.status = 204
          /\ \A i \in 1..Len(trace') : trace'[i].op \notin {"DELETE", "PUT"}
          /\ store' = store
          /\ purged' = purged
          /\ kv.has => (kv' = kv /\ memo' = kv
                        /\ \A i \in 1..Len(trace') : trace'[i].op = "kv.get")
          /\ ~kv.has => (kv'.has /\ memo' = kv')]_vars

\* A second DELETE of a key right after the DELETE that removed it, on a
\* persisted index.
DeleteAbsentWitness ==
    /\ resp.method = "DELETE" /\ resp.status = 204
    /\ resp.prior = NoEntry /\ ~resp.cold
    /\ \E b \in Backends : purged = {<<resp.key, b>>}
    /\ trace = <<KvCall("kv.get")>>

\* A PUT answered 200 that wrote the key to another backend than the one the
\* index had it on.
CrossBackendMove ==
    /\ resp.method = "PUT" /\ resp.status = 200
    /\ resp.prior # NoEntry
    /\ resp.prior.bucket # resp.target

MovedInIndex ==
    /\ FreshLocate(resp.key).bucket = resp.target
    /\ IndexGet(memo.val, resp.key).bucket = resp.target
    /\ Cardinality({i \in 1..Len(kv.val) : kv.val[i].key = resp.key}) = 1

NoEntryForDeletedObject ==
    kv.has => \A i \in 1..Len(kv.val) : <<kv.val[i].key, kv.val[i].bucket>> \notin purged

----------------------------------------------------------------------------
(* Properties of a PUT that fails *)

\* The calls of the last request with operation op.
CallsOf(op) == {i \in 1..Len(trace) : trace[i].op = op}

\* The index store is written by the rebuild of the request's first load only.
OnlyRebuildSaves == \A i \in CallsOf("kv.put") : i > 1 /\ trace[i - 1].op = "LIST"

\* C17: a PUT for which no backend has room is answered 507, sends no physical
\* PUT and writes no index entry for the key (the index store knows of the key
\* what locateFile found); a PUT is answered with success only when its object
\* was written to a backend.
CapacityExhausted ==
    resp.method = "PUT" =>
        /\ resp.status = 507 =>
              /\ SelectBucketForUpload(Configs, memo.val, resp.size, strategy, maxBytes)
                    = NoBucket
              /\ CallsOf("PUT") = {}
              /\ OnlyRebuildSaves
              /\ IndexGet(kv.val, resp.key) = resp.prior
              /\ IndexGet(memo.val, resp.key) = NoEntry
        /\ (CallsOf("PUT") = {} /\ resp.delOut # "throw") => resp.status = 507
        /\ resp.status = 200 =>
              /\ resp.target \in Backends
              /\ CallsOf("PUT") # {}
              /\ Retrievable(store, resp.target, resp.key)

\* A first upload of a key, answered 507.
CapacityExhaustedWitness ==
    /\ resp.method = "PUT" /\ resp.status = 507
    /\ resp.prior = NoEntry
    /\ kv.has /\ IndexGet(kv.val, resp.key) = NoEntry

\* C18: when the backend answers the physical PUT with a non-2xx status the
\* request ends with a 5xx answer, nothing is written to the index store and
\* the index gets no entry for the key.
FailedUploadLeavesIndex ==
    (resp.method = "PUT" /\ resp.putOut = "err") =>
        /\ resp.status >= 500 /\ resp.status <= 599
        /\ trace[Len(trace)].op = "PUT"
        /\ OnlyRebuildSaves
        /\ IndexGet(kv.val, resp.key) = resp.prior
        /\ IndexGet(memo.val, resp.key) = NoEntry

\* A first upload of a key that the backend refuses.
FailedUploadWitness ==
    /\ resp.method = "PUT" /\ resp.putOut = "err"
    /\ resp.prior = NoEntry
    /\ kv.has /\ IndexGet(kv.val, resp.key) = NoEntry

\* C19: a physical DELETE that fails, by a non-2xx answer or by the HTTP call
\* throwing, does not make deleteObject raise: the key leaves the index and the
\* index is persisted.
SoftDelete ==
    (resp.method = "DELETE" /\ resp.prior # NoEntry /\ resp.delOut \in {"err", "throw"})
        => /\ resp.status = 204
           /\ CallsOf("kv.put") # {}
           /\ IndexGet(kv.val, resp.key) = NoEntry

----------------------------------------------------------------------------
(* The signature verifier: AuthMiddleware (src/src/core/auth.ts)           *)
(*                                                                         *)
(* Text is a sequence of tokens: one character where the code looks at     *)
(* characters (a signature, a date stamp, a header value), a whole word    *)
(* otherwise ("Credential=", "aws4_request", a header name).               *)

Space == " "

Tab == "\t"

NL == "\n"

\* The characters \s matches.
IsSpace(ch) == ch \in {Space, Tab}

HexDigits == <<"0", "1", "2", "3", "4", "5", "6", "7", "8", "9",
               "a", "b", "c", "d", "e", "f">>

\* [a-f0-9]
IsHex(ch) == ch \in Range(HexDigits)

\* Every token of a text that is hashed: the value of a byte is the token's
\* place in this list.
Alphabet ==
    HexDigits \o
    <<"z", "/", ",", ";", ":", "=", "&", Space, Tab, NL,
      "%20", "%2520", "%2F", "x", "y", "1", "h", "T", "t", "p", "r", "K", "J", "S",
      "GET", "PUT", "DELETE", "prefix", "delimiter", "token",
      "host", "Host", "x-amz-date", "content-type", "x-amz-content-sha256",
      "UNSIGNED-PAYLOAD", "AWS4-HMAC-SHA256", "AWS4", "s3", "aws4_request",
      "_cache", "now", "sha256(", "hmac(", "|", ")">>

\* The value of the byte that stands for a token.
ByteOf ==
    [tok \in Range(Alphabet) |-> (CHOOSE i \in 1..Len(Alphabet) : Alphabet[i] = tok) - 1]

\* b.toString(16).padStart(2, '0') of every byte of the buffer
BufferToHex(buffer) ==
    [i \in 1..(2 * Len(buffer)) |->
        LET b == ByteOf[buffer[(i + 1) \div 2]]
        IN  IF i % 2 = 1 THEN HexDigits[(b \div 16) + 1]
            ELSE HexDigits[(b % 16) + 1]]

\* crypto.subtle.digest('SHA-256', message): the digest is an unknown
\* one-to-one function of the message, kept as a term.
Sha256(message) == BufferToHex(<<"sha256(">> \o message \o <<")">>)

\* crypto.subtle.sign('HMAC', key, data): an unknown one-to-one function of
\* key and data, kept as a term.
Hmac(key, data) == <<"hmac(">> \o key \o <<"|">> \o data \o <<")">>

HmacHex(key, data) == BufferToHex(Hmac(key, data))

\* parts.join(sep)
RECURSIVE Join(_, _)
Join(parts, sep) ==
    IF Len(parts) = 0 THEN <<>>
    ELSE IF Len(parts) = 1 THEN parts[1]
    ELSE parts[1] \o sep \o Join(Tail(parts), sep)

\* parts.join('')
RECURSIVE Concat(_)
Concat(parts) == IF Len(parts) = 0 THEN <<>> ELSE Head(parts) \o Concat(Tail(parts))

\* s.split(sep) for a one-character separator
RECURSIVE Split(_, _)
Split(s, sep) ==
    LET places == {i \in 1..Len(s) : s[i] = sep}
        first == CHOOSE i \in places : \A j \in places : i <= j
    IN  IF places = {} THEN <<s>>
        ELSE <<SubSeq(s, 1, first - 1)>> \o Split(SubSeq(s, first + 1, Len(s)), sep)

\* s.trim()
Trim(s) ==
    LET inked == {i \in 1..Len(s) : ~IsSpace(s[i])}
        lo == CHOOSE i \in inked : \A j \in inked : i <= j
        hi == CHOOSE i \in inked : \A j \in inked : j <= i
    IN  IF inked = {} THEN <<>> ELSE SubSeq(s, lo, hi)

\* s.replace(/\s+/g, ' ')
RECURSIVE CollapseSpaces(_)
CollapseSpaces(s) ==
    IF s = <<>> THEN <<>>
    ELSE IF ~IsSpace(Head(s)) THEN <<Head(s)>> \o CollapseSpaces(Tail(s))
    ELSE IF Len(s) > 1 /\ IsSpace(s[2]) THEN CollapseSpaces(Tail(s))
    ELSE <<Space>> \o CollapseSpaces(Tail(s))

\* value.replace(/\s+/g, ' ').trim()
NormalizeValue(value) == Trim(CollapseSpaces(value))

\* s.toLowerCase()
ToLowerCase(s) == [i \in 1..Len(s) |-> IF s[i] = "Host" THEN "host" ELSE s[i]]

\* encodeURI(url.pathname): the pathname of a URL keeps its percent escapes,
\* and encodeURI escapes the percent sign of each.
EncodeURI(pathname) ==
    [i \in 1..Len(pathname) |-> IF pathname[i] = "%20" THEN "%2520" ELSE pathname[i]]

\* encodeURIComponent of a (decoded) query key or value
EncodeURIComponent(tok) == IF tok = "/" THEN "%2F" ELSE tok

\* The order of k1.localeCompare(k2) on the query keys.
QueryKeyRank(k) ==
    CASE k = "delimiter" -> 1
      [] k = "prefix" -> 2
      [] k = "token" -> 3

\* The canonical query string of url.searchParams.
CanonicalQueryString(query) ==
    LET sorted == SortByRank(query, [i \in 1..Len(query) |-> QueryKeyRank(query[i].k)])
    IN  Join([i \in 1..Len(sorted) |->
                 <<EncodeURIComponent(sorted[i].k), "=", EncodeURIComponent(sorted[i].v)>>],
             <<"&">>)

\* The names request.headers.get takes; any other name makes it throw a
\* TypeError.
HeaderNames == {"host", "x-amz-date", "date", "content-type", "x-amz-content-sha256"}

ValidHeaderName(h) == Len(h) = 1 /\ h[1] \in HeaderNames

\* request.headers.get(h) || '' : a header not sent is the empty value, and the
\* value of one that was sent has no white space at its ends.
HeaderGet(headers, h) == Trim(headers[h[1]])

\* The headers named by SignedHeaders, lower-cased.
HeadersToSign(signedHeaders) ==
    LET parts == Split(signedHeaders, ";")
    IN  [i \in 1..Len(parts) |-> ToLowerCase(Trim(parts[i]))]

\* A faulty canonical form: the values of the signed headers are left out.
CanonicalHeadersNamesOnly(headers, headersToSign) ==
    Concat([i \in 1..Len(headersToSign) |-> headersToSign[i] \o <<":", NL>>])

\* The canonical headers: a line name:value for each signed header.
CanonicalHeaders(headers, headersToSign) ==
    Concat([i \in 1..Len(headersToSign) |->
               headersToSign[i] \o <<":">>
               \o NormalizeValue(HeaderGet(headers, headersToSign[i])) \o <<NL>>])

\* Steps 2 to 4 of verifySignature: the string to sign, the signing key and
\* the signature.
CalculatedSignature(secretKey, canonicalRequest, datetime, dateStamp, region) ==
    LET credentialScope == dateStamp \o <<"/">> \o region \o <<"/", "s3", "/", "aws4_request">>
        stringToSign == Join(<<(<<"AWS4-HMAC-SHA256">>), datetime, credentialScope,
                               Sha256(canonicalRequest)>>, <<NL>>)
        kDate == Hmac(<<"AWS4">> \o secretKey, dateStamp)
        kRegion == Hmac(kDate, region)
        kService == Hmac(kRegion, <<"s3">>)
        kSigning == Hmac(kService, <<"aws4_request">>)
    IN  HmacHex(kSigning, stringToSign)

NoMatch == [ok |-> FALSE, groups |-> <<>>]

\* authHeader.match(/Credential=([^/]+)\/([^/]+)\/([^/]+)\/s3\/aws4_request/)
MatchCredential(authHeader) ==
    LET n == Len(authHeader)
        SlashFrom(p) ==
            LET js == {j \in p..n : authHeader[j] = "/"}
            IN  IF p = 0 \/ js = {} THEN 0 ELSE CHOOSE j \in js : \A l \in js : j <= l
        S1(i) == SlashFrom(i + 1)
        S2(i) == IF S1(i) = 0 THEN 0 ELSE SlashFrom(S1(i) + 1)
        S3(i) == IF S2(i) = 0 THEN 0 ELSE SlashFrom(S2(i) + 1)
        Matches(i) ==
            /\ authHeader[i] = "Credential="
            /\ S3(i) # 0
            /\ S1(i) > i + 1 /\ S2(i) > S1(i) + 1 /\ S3(i) > S2(i) + 1
            /\ S3(i) + 3 <= n
            /\ SubSeq(authHeader, S3(i), S3(i) + 3) = <<"/", "s3", "/", "aws4_request">>
        starts == {i \in 1..n : Matches(i)}
        at == CHOOSE i \in starts : \A j \in starts : i <= j
    IN  IF starts = {} THEN NoMatch
        ELSE [ok |-> TRUE,
              groups |-> <<SubSeq(authHeader, at + 1, S1(at) - 1),
                           SubSeq(authHeader, S1(at) + 1, S2(at) - 1),
                           SubSeq(authHeader, S2(at) + 1, S3(at) - 1)>>]

\* The longest stretch of s from place p on whose tokens are all in `class`.
RunFrom(s, p, class) ==
    LET ends == {e \in p..Len(s) : \A j \in p..e : s[j] \in class}
    IN  IF ends = {} THEN <<>>
        ELSE SubSeq(s, p, CHOOSE e \in ends : \A f \in ends : f <= e)

\* authHeader.match(/Signature=([a-f0-9]+)/)
MatchSignature(authHeader) ==
    LET n == Len(authHeader)
        starts == {i \in 1..(n - 1) : authHeader[i] = "Signature=" /\ IsHex(authHeader[i + 1])}
        at == CHOOSE i \in starts : \A j \in starts : i <= j
    IN  IF starts = {} THEN NoMatch
        ELSE [ok |-> TRUE, groups |-> <<RunFrom(authHeader, at + 1, Range(HexDigits))>>]

\* authHeader.match(/SignedHeaders=([^,]+)/)
MatchSignedHeaders(authHeader) ==
    LET n == Len(authHeader)
        starts == {i \in 1..(n - 1) : authHeader[i] = "SignedHeaders=" /\ authHeader[i + 1] # ","}
        at == CHOOSE i \in starts : \A j \in starts : i <= j
    IN  IF starts = {} THEN NoMatch
        ELSE [ok |-> TRUE,
              groups |-> <<RunFrom(authHeader, at + 1, Range(authHeader) \ {","})>>]

\* The request as verify sees it: method, url.pathname, url.searchParams, the
\* headers, and the Authorization header.
Request(method, pathname, query, headers, auth) ==
    [method |-> method, pathname |-> pathname, query |-> query,
     headers |-> headers, auth |-> auth]

\* verifySignature(request, authHeader, secretKey, dateStamp, region); `fails`
\* says that a Web Crypto call throws.
VerifySignature(request, authHeader, secretKey, dateStamp, region, fails) ==
    LET Header(name) == HeaderGet(request.headers, <<name>>)
        datetime == IF Header("x-amz-date") # <<>> THEN Header("x-amz-date")
                    ELSE IF Header("date") # <<>> THEN Header("date")
                    ELSE <<"now">>
        signatureMatch == MatchSignature(authHeader)
        signedHeadersMatch == MatchSignedHeaders(authHeader)
        clientSignature == signatureMatch.groups[1]
        signedHeaders == signedHeadersMatch.groups[1]
        canonicalUri == EncodeURI(request.pathname)
        canonicalQueryString == CanonicalQueryString(request.query)
        headersToSign == HeadersToSign(signedHeaders)
        canonicalHeaders == CanonicalHeaders(request.headers, headersToSign)
        payloadHash == IF Header("x-amz-content-sha256") # <<>>
                       THEN Header("x-amz-content-sha256")
                       ELSE <<"UNSIGNED-PAYLOAD">>
        canonicalRequest == Join(<<(<<request.method>>), canonicalUri,
                                   canonicalQueryString, canonicalHeaders,
                                   signedHeaders, payloadHash>>, <<NL>>)
        calculatedSignature == CalculatedSignature(secretKey, canonicalRequest,
                                                   datetime, dateStamp, region)
    IN  IF ~signatureMatch.ok \/ ~signedHeadersMatch.ok THEN "Rejected"
        ELSE IF \E i \in 1..Len(headersToSign) : ~ValidHeaderName(headersToSign[i])
        THEN "Raised"
        ELSE IF fails THEN "Raised"
        ELSE IF calculatedSignature = clientSignature THEN "Accepted"
        ELSE "Rejected"

\* A faulty comparison: any access key will do.
AnyAccessKey(accessKeyId, configured) == TRUE

\* accessKeyId !== this.env.VIRTUAL_ACCESS_KEY_ID, negated
SameAccessKey(accessKeyId, configured) == accessKeyId = configured

\* A faulty test: a secret of white space counts as a secret.
LenientWhenEmpty(secretKey) == secretKey = <<>>

\* !secretKey || secretKey.trim() === ''
Lenient(secretKey) == Trim(secretKey) = <<>>

\* A faulty handler: the exception goes on to the caller.
Uncaught(outcome) == outcome

\* try { return await this.verifySignature(...) } catch (e) { return false }
Caught(outcome) == IF outcome = "Raised" THEN "Rejected" ELSE outcome

\* verify(request) under env
Verify(env, request, fails) ==
    LET authHeader == request.auth.val
        credentialMatch == MatchCredential(authHeader)
        accessKeyId == credentialMatch.groups[1]
        dateStamp == credentialMatch.groups[2]
        region == credentialMatch.groups[3]
        secretKey == env.secret
    IN  IF ~request.auth.has \/ ~StartsWith(authHeader, <<"AWS4-HMAC-SHA256">>)
        THEN "Rejected"
        ELSE IF ~credentialMatch.ok THEN "Rejected"
        ELSE IF ~SameAccessKey(accessKeyId, env.accessKey) THEN "Rejected"
        ELSE IF Lenient(secretKey) THEN "Accepted"
        ELSE Caught(VerifySignature(request, authHeader, secretKey, dateStamp,
                                    region, fails))

----------------------------------------------------------------------------
(* verify as a function of the request: the requests it is checked on *)

\* env.VIRTUAL_ACCESS_KEY_ID and env.VIRTUAL_SECRET_ACCESS_KEY: no secret, a
\* blank one, a real one.
AuthEnvs == {[accessKey |-> <<"K">>, secret |-> s] : s \in {<<>>, <<Space>>, <<"S">>}}

Paths == {<<"/", "x">>, <<"/", "x", "%20", "y">>}

Queries == {<<>>,
            <<[k |-> "prefix", v |-> "x"], [k |-> "delimiter", v |-> "/"]>>,
            <<[k |-> "token", v |-> "1"]>>}

\* The headers a client sends, with or without x-amz-content-sha256.
SentHeaders(withSha) ==
    [n \in HeaderNames |->
        CASE n = "host" -> <<"h">>
          [] n = "x-amz-date" -> <<"T">>
          [] n = "content-type" -> <<"t", Space, "p">>
          [] n = "x-amz-content-sha256" -> IF withSha THEN <<"p">> ELSE <<>>
          [] OTHER -> <<>>]

SignedHeaderLists == {<<"host", ";", "x-amz-date", ";", "content-type">>,
                      <<"Host", ";", "x-amz-date">>}

\* What a request can lack.
Defects == {"none", "noAuth", "scheme", "credShort", "credNone", "otherKey",
            "sigBad", "sigNonHex", "sigNone", "shNone", "shEmptyName"}

\* The characters a byte is changed to.
MutChars == {"0", "1", "z", "/", ",", Space, Tab}

NoMut == [part |-> "none", name |-> "none", pos |-> 0, ch |-> "none", old |-> "none"]

\* The signature a client computes with `secret` over the request it sends,
\* its canonical URI being `uri`.
ClientSignature(secret, method, uri, query, headers, signedHeaders, dateStamp, region) ==
    LET payloadHash == IF headers["x-amz-content-sha256"] # <<>>
                       THEN headers["x-amz-content-sha256"]
                       ELSE <<"UNSIGNED-PAYLOAD">>
        canonicalRequest ==
            Join(<<(<<method>>), uri, CanonicalQueryString(query),
                   CanonicalHeaders(headers, HeadersToSign(signedHeaders)),
                   signedHeaders, payloadHash>>, <<NL>>)
    IN  CalculatedSignature(secret, canonicalRequest, headers["x-amz-date"],
                            dateStamp, region)

\* A request signed with secret "S" by a client for S3 (the path signed as it
\* is sent) or by a client that encodes the path once more ("aws").
Signed(method, pathname, query, withSha, signedHeaders, sigKind, order) ==
    LET headers == SentHeaders(withSha)
        uri == IF sigKind = "s3" THEN pathname ELSE EncodeURI(pathname)
    IN  [op |-> "verify", method |-> method, pathname |-> pathname, query |-> query,
         headers |-> headers, hasAuth |-> TRUE, scheme |-> "AWS4-HMAC-SHA256",
         cred |-> "full", accessKey |-> <<"K">>, dateStamp |-> <<"2", "0">>,
         region |-> <<"r">>, signedHeaders |-> Some(signedHeaders),
         signature |-> Some(ClientSignature(<<"S">>, method, uri, query, headers,
                                           signedHeaders, <<"2", "0">>, <<"r">>)),
         sigKind |-> sigKind, order |-> order, defect |-> "none", mut |-> NoMut]

\* The request with one thing wrong.
WithDefect(g, d) ==
    CASE d = "none" -> g
      [] d = "noAuth" -> [g EXCEPT !.hasAuth = FALSE, !.defect = d]
      [] d = "scheme" -> [g EXCEPT !.scheme = "Bearer", !.defect = d]
      [] d = "credShort" -> [g EXCEPT !.cred = "short", !.defect = d]
      [] d = "credNone" -> [g EXCEPT !.cred = "none", !.defect = d]
      [] d = "otherKey" -> [g EXCEPT !.accessKey = <<"J">>, !.defect = d]
      [] d = "sigBad" -> [g EXCEPT !.signature = Some(<<"0", "0">>), !.defect = d]
      [] d = "sigNonHex" -> [g EXCEPT !.signature = Some(<<"z", "z">>), !.defect = d]
      [] d = "sigNone" -> [g EXCEPT !.signature = Null, !.defect = d]
      [] d = "shNone" -> [g EXCEPT !.signedHeaders = Null, !.defect = d]
      [] d = "shEmptyName" ->
            [g EXCEPT !.signedHeaders = Some(<<"host", ";", ";", "x-amz-date">>),
                      !.defect = d]

\* The single-byte changes of a signed request: of its signature, of the date
\* stamp of its credential scope, of the value of a signed header.
Mutations(g) ==
    LET names == Range(HeadersToSign(g.signedHeaders.val))
    IN  {[part |-> "signature", name |-> "none", pos |-> p, ch |-> ch,
             old |-> g.signature.val[p]] :
            p \in 1..Len(g.signature.val), ch \in MutChars}
        \cup {[part |-> "dateStamp", name |-> "none", pos |-> p, ch |-> ch,
                old |-> g.dateStamp[p]] :
                p \in 1..Len(g.dateStamp), ch \in MutChars}
        \cup UNION {{[part |-> "header", name |-> nm[1], pos |-> p, ch |-> ch,
                      old |-> g.headers[nm[1]][p]] :
                        p \in 1..Len(g.headers[nm[1]]), ch \in MutChars} : nm \in names}

Mutated(g, m) ==
    CASE m.part = "signature" ->
            [g EXCEPT !.signature = Some([@.val EXCEPT ![m.pos] = m.ch]), !.mut = m]
      [] m.part = "dateStamp" -> [g EXCEPT !.dateStamp[m.pos] = m.ch, !.mut = m]
      [] m.part = "header" -> [g EXCEPT !.headers[m.name][m.pos] = m.ch, !.mut = m]

\* The Authorization header the request carries.
AuthorizationOf(g) ==
    LET credential ==
            CASE g.cred = "full" ->
                    <<(<<"Credential=">> \o g.accessKey \o <<"/">> \o g.dateStamp
                       \o <<"/">> \o g.region \o <<"/", "s3", "/", "aws4_request">>)>>
              [] g.cred = "short" ->
                    <<(<<"Credential=">> \o g.accessKey \o <<"/">> \o g.dateStamp
                       \o <<"/", "s3", "/", "aws4_request">>)>>
              [] g.cred = "none" -> <<>>
        signedHeaders == IF g.signedHeaders.has
                         THEN <<(<<"SignedHeaders=">> \o g.signedHeaders.val)>>
                         ELSE <<>>
        signature == IF g.signature.has
                     THEN <<(<<"Signature=">> \o g.signature.val)>>
                     ELSE <<>>
        parts == IF g.order = "std" THEN credential \o signedHeaders \o signature
                 ELSE credential \o signature \o signedHeaders
    IN  IF g.hasAuth
        THEN Some(<<g.scheme, Space>> \o Join(parts, <<",", Space>>))
        ELSE Null

RequestOf(g) == Request(g.method, g.pathname, g.query, g.headers, AuthorizationOf(g))

\* The signed requests, each as it is and with one thing wrong.
SignedRequests ==
    {Signed("GET", pathname, query, withSha, signedHeaders, sigKind, "std") :
        pathname \in Paths, query \in Queries, withSha \in BOOLEAN,
        signedHeaders \in SignedHeaderLists, sigKind \in {"s3", "aws"}}
    \cup {Signed("PUT", pathname, <<>>, TRUE, signedHeaders, "s3", order) :
            pathname \in Paths, signedHeaders \in SignedHeaderLists,
            order \in {"std", "sigfirst"}}

\* The signed requests whose single-byte changes are looked at.
ChangedRequests ==
    {Signed("GET", <<"/", "x">>, <<>>, FALSE, signedHeaders, "aws", "std") :
        signedHeaders \in SignedHeaderLists}

InitAuth ==
    /\ kv = Null /\ InitBase
    /\ strategy = "fill-first"
    /\ \/ \E env \in AuthEnvs, fails \in BOOLEAN, g \in SignedRequests, d \in Defects :
              call = [op |-> "verify", req |-> WithDefect(g, d), env |-> env,
                      fails |-> fails]
       \/ \E g \in ChangedRequests :
              \E m \in Mutations(g) :
                 /\ m.ch # m.old
                 /\ call = [op |-> "verify", req |-> Mutated(g, m),
                            env |-> [accessKey |-> <<"K">>, secret |-> <<"S">>],
                            fails |-> FALSE]
    /\ result = Idle

ApplyVerify ==
    /\ call.op = "verify" /\ result.op = "none"
    /\ result' = [op |-> "verify", value |-> Verify(call.env, RequestOf(call.req), call.fails)]
    /\ UNCHANGED <<kv, store, now, strategy, memo, resp, trace, purged, call>>

SpecAuth == InitAuth /\ [][ApplyVerify]_vars

----------------------------------------------------------------------------
(* The router's gate: fetch authenticates before it touches the cluster *)

\* The clients of the gate: one that signs PUT /x, with and without a token
\* query parameter, as it is and with no Authorization header or another key.
GateRequests ==
    {WithDefect(Signed("PUT", <<"/", "x">>, query, TRUE,
                       <<"host", ";", "x-amz-date", ";", "content-type">>, "s3", "std"), d) :
        query \in {<<>>, <<[k |-> "token", v |-> "1"]>>},
        d \in {"none", "noAuth", "otherKey"}}

GateEnvs == {[accessKey |-> <<"K">>, secret |-> s] : s \in {<<>>, <<"S">>}}

\* The method and url.pathname of the request the router names `method`.
MethodOf(method) == IF method = "CLEAR" THEN "DELETE" ELSE method

PathOf(method, key) == IF method = "CLEAR" THEN <<"/", "_cache">> ELSE <<"/">> \o key

\* The keys the clients of the gate ask for.
GateKeys == {<<"x">>}

\* The inbound request: the client's headers and query on the method and path.
Inbound(g, method, key) ==
    [RequestOf(g) EXCEPT !.method = MethodOf(method), !.pathname = PathOf(method, key)]

\* auth.verify(request) for every client, method and key of the gate.
IsAuth ==
    [g \in GateRequests, env \in GateEnvs, method \in {"PUT", "DELETE", "CLEAR"},
     key \in GateKeys \cup {NoKey} |->
        Verify(env, Inbound(g, method, key), FALSE) = "Accepted"]

\* url.searchParams.has('token')
HasToken(query) == \E i \in 1..Len(query) : query[i].k = "token"

\* A faulty gate: every request passes.
PassesUnchecked(method, key) == TRUE

\* isAuth || url.searchParams.has('token')
Passes(method, key) ==
    \/ IsAuth[call.req, call.env, method, key]
    \/ HasToken(call.req.query)

\* The request is turned away: 403 before a ClusterManager exists.
Forbidden(method, key) ==
    /\ now < MaxClock
    /\ ~Passes(method, key)
    /\ Finish(C0, Resp(method, key, 403, NoEntry, NoBucket, 0, FALSE, "none", "none",
                       ~kv.has))

GatedPut(key, size) == Passes("PUT", key) /\ Put(key, size)

GatedDelete(key) == Passes("DELETE", key) /\ Delete(key)

GatedClearIndex == Passes("CLEAR", NoKey) /\ ClearIndex

InitGate ==
    /\ kv = Null /\ InitBase
    /\ strategy = "fill-first"
    /\ \E g \in GateRequests, env \in GateEnvs :
          call = [op |-> "gate", req |-> g, env |-> env]
    /\ result = Idle

NextGate ==
    \/ \E key \in GateKeys, size \in Sizes : GatedPut(key, size)
    \/ \E key \in GateKeys : GatedDelete(key)
    \/ GatedClearIndex
    \/ \E method \in {"PUT", "DELETE"}, key \in GateKeys : Forbidden(method, key)
    \/ Forbidden("CLEAR", NoKey)

SpecGate == InitGate /\ [][NextGate]_vars

----------------------------------------------------------------------------
(* Properties of verify *)

VerifyDone == call.op = "verify" /\ result.op = "verify"

Strict == Trim(call.env.secret) # <<>>

\* The request fails none of the checks of scheme, Credential form and access key.
PassesKeyChecks ==
    call.req.defect \notin {"noAuth", "scheme", "credShort", "credNone", "otherKey"}

\* C11: in full verification, a request that carries the signature computed
\* with the configured secret over its method, path, query, signed headers,
\* payload hash, x-amz-date and credential scope is Accepted.
SignedRequestAccepted ==
    (/\ VerifyDone /\ Strict /\ ~call.fails
     /\ call.req.defect = "none" /\ call.req.mut = NoMut
     /\ call.req.sigKind = "s3")
        => result.value = "Accepted"

\* The change replaces a white-space character of a header value by another
\* white-space character.
SpaceForSpace ==
    /\ call.req.mut.part = "header"
    /\ IsSpace(call.req.mut.old) /\ IsSpace(call.req.mut.ch)

\* The request before the change is Accepted.
AcceptedBeforeChange ==
    (/\ VerifyDone /\ Strict /\ ~call.fails
     /\ call.req.defect = "none" /\ call.req.mut = NoMut
     /\ call.req.sigKind = "aws")
        => result.value = "Accepted"

\* C12 as stated: in full verification, a change of one byte of the signature,
\* of the date stamp or of a signed header's value in an Accepted request
\* yields Rejected.
AnyChangeRejected ==
    /\ AcceptedBeforeChange
    /\ (VerifyDone /\ call.req.mut # NoMut) => result.value = "Rejected"

\* C12, amended: the change yields Rejected unless it replaces a white-space
\* character of a header value by another white-space character.
ChangeRejected ==
    /\ AcceptedBeforeChange
    /\ (VerifyDone /\ call.req.mut # NoMut /\ ~SpaceForSpace)
          => result.value = "Rejected"

\* A changed byte in the value of a signed header, Rejected.
ChangeRejectedWitness ==
    /\ VerifyDone
    /\ call.req.mut.part = "header" /\ call.req.mut.name = "content-type"
    /\ call.req.mut.old = Space /\ call.req.mut.ch = "z"
    /\ result.value = "Rejected"

\* C13: Accepted only with an Authorization header of the scheme, a well-formed
\* Credential and the configured access key; a request failing one of these
\* checks is Rejected, with and without a secret.
KeyChecks ==
    VerifyDone =>
        /\ result.value = "Accepted" =>
              /\ call.req.hasAuth
              /\ call.req.scheme = "AWS4-HMAC-SHA256"
              /\ call.req.cred = "full"
              /\ call.req.accessKey = call.env.accessKey
        /\ ~PassesKeyChecks => result.value = "Rejected"

\* Another access key, no secret configured: Rejected.
KeyChecksWitness ==
    /\ VerifyDone
    /\ call.req.defect = "otherKey" /\ call.env.secret = <<>>
    /\ result.value = "Rejected"

\* C14: with an empty or blank secret, every request passing the scheme,
\* Credential and access-key checks is Accepted, whatever its Signature and
\* SignedHeaders.
LenientAccepts ==
    (VerifyDone /\ ~Strict /\ PassesKeyChecks) => result.value = "Accepted"

\* A blank secret and no Signature part: Accepted.
LenientWitness ==
    /\ VerifyDone
    /\ call.env.secret = <<Space>> /\ call.req.defect = "sigNone"
    /\ result.value = "Accepted"

\* C15: in full verification verify ends in Accepted or Rejected and never
\* raises; a missing or unparseable Signature or SignedHeaders, or an
\* exception while the canonical request or the hashes are computed, yields
\* Rejected.
FailClosed ==
    (VerifyDone /\ Strict) =>
        /\ result.value \in {"Accepted", "Rejected"}
        /\ (\/ call.fails
            \/ call.req.defect \in {"sigNone", "sigNonHex", "shNone", "shEmptyName"})
              => result.value = "Rejected"

\* A Web Crypto call throws on a correctly signed request: Rejected.
FailClosedWitness ==
    /\ VerifyDone /\ Strict
    /\ call.fails /\ call.req.defect = "none" /\ call.req.sigKind = "aws"
    /\ result.value = "Rejected"

----------------------------------------------------------------------------
(* Properties of the gate *)

\* The verifier's answer to the request just handled.
VerifierSays ==
    IF IsAuth[call.req, call.env, resp.method, resp.key] THEN "Accepted" ELSE "Rejected"

\* The request just handled carried a token query parameter.
CarriedToken == \E i \in 1..Len(call.req.query) : call.req.query[i].k = "token"

\* C16: a request the verifier rejects and that carries no token is answered
\* 403 and causes no cluster operation; a request that reaches a cluster
\* operation was Accepted or carries a token.
AuthGate ==
    /\ (resp.method # "none" /\ VerifierSays = "Rejected" /\ ~CarriedToken)
          => /\ resp.status = 403
             /\ trace = <<>> /\ memo = Null
    /\ (trace # <<>>) => (VerifierSays = "Accepted" \/ CarriedToken)

\* A DELETE carrying the signature of a PUT and no token, answered 403 after
\* the client's PUT got through.
AuthGateWitness ==
    /\ resp.status = 403 /\ resp.method = "DELETE"
    /\ call.req.defect = "none" /\ ~CarriedToken
    /\ kv.has /\ kv.val # <<>>

----------------------------------------------------------------------------
(* Two write requests in flight at once.  Each request has its own          *)
(* ClusterManager, so its own inMemoryIndex; the index store and the        *)
(* backends are shared.  A request gives way to the other where it awaits   *)
(* the index store or a backend.                                            *)

RaceWriter(method, key, size, t) ==
    [method |-> method, key |-> key, size |-> size, t |-> t, pc |-> "start",
     memo |-> Null, existing |-> NoEntry, target |-> NoBucket, status |-> 0,
     seen |-> Null]

\* The entry of an object that backend A holds from time 1 on.
Stored(key) ==
    [key |-> key, bucket |-> "A", size |-> 1, lastModified |-> 1,
     etag |-> StripQuotes(ETagOf(1)), versionId |-> VersionHeader("A", 1)]

\* The index store holds an index that agrees with the backends; request 1
\* writes key x, request 2 writes key y.
InitRace ==
    /\ \E present \in SUBSET Keys :
        LET Held(k) == k \in present
            held == SelectSeq(KeyOrder, Held)
        IN  /\ store = [b \in Backends |-> [k \in Keys |->
                          IF b = "A" /\ k \in present
                          THEN <<Version(1, 1, ETagOf(1), 1, FALSE)>> ELSE <<>>]]
            /\ kv = Some([i \in 1..Len(held) |-> Stored(held[i])])
    /\ now = 0 /\ memo = Null /\ resp = NoResp /\ trace = <<>> /\ purged = {}
    /\ strategy \in Strategies
    /\ \E m1, m2 \in {"PUT", "DELETE"}, s1, s2 \in 1..MaxSize :
          /\ (m1 = "DELETE" => s1 = 1) /\ (m2 = "DELETE" => s2 = 1)
          /\ call = [op |-> "race",
                     w |-> <<RaceWriter(m1, <<"x">>, s1, 2),
                             RaceWriter(m2, <<"y">>, s2, 3)>>,
                     overlap |-> FALSE]
    /\ result = Idle

\* The state request i works on.
RaceContext(i) ==
    [kv |-> kv, store |-> store, memo |-> call.w[i].memo, trace |-> <<>>,
     purged |-> purged, threw |-> FALSE]

\* Request i goes on as w, leaving the index store as kv2 and the backends as
\* store2.  w.seen is what the index store held when the request's last backend
\* call was answered.  The requests overlap when one starts while the other is under way.
RaceStep(i, w, kv2, store2) ==
    /\ call' = [call EXCEPT
                  !.w[i] = w,
                  !.overlap = @ \/ (/\ call.w[i].pc = "start"
                                    /\ call.w[3 - i].pc \notin {"start", "done"})]
    /\ kv' = kv2
    /\ store' = store2
    /\ UNCHANGED <<now, strategy, memo, resp, trace, purged, result>>

\* existing = await cluster.locateFile(key): the index is read from the store.
RaceLocate(i) ==
    LET w == call.w[i]
        c1 == LoadIndex(RaceContext(i), FALSE, NoRebuild)
        existing == LocateFile(c1, w.key)
        absent == w.method = "DELETE" /\ existing = NoEntry
    IN  /\ call.op = "race" /\ w.pc = "start"
        /\ RaceStep(i, [w EXCEPT !.memo = c1.memo, !.existing = existing,
                                  !.pc = IF absent THEN "done" ELSE "located",
                                  !.status = IF absent THEN 204 ELSE 0],
                    c1.kv, c1.store)

\* deleteObject: await client.fetch(url, { method: 'DELETE' }); in a PUT
\* (updateKV = false) the key then leaves the request's own index.
RacePhysicalDelete(i) ==
    LET w == call.w[i]
    IN  /\ call.op = "race" /\ w.pc = "located" /\ w.existing # NoEntry
        /\ RaceStep(i,
                    IF w.method = "PUT"
                    THEN [w EXCEPT !.memo = Some(IndexDelete(@.val, w.key)),
                                   !.pc = "cleaned", !.seen = kv]
                    ELSE [w EXCEPT !.pc = "deleted", !.seen = kv],
                    kv,
                    BackendDelete(store, w.existing.bucket, w.key,
                                  w.existing.versionId, w.t))

\* deleteObject of a DELETE: delete index[key]; await this.saveIndex(index)
RaceRecordDelete(i) ==
    LET w == call.w[i]
        c == SaveIndex(RaceContext(i), IndexDelete(w.memo.val, w.key))
    IN  /\ call.op = "race" /\ w.pc = "deleted"
        /\ RaceStep(i, [w EXCEPT !.memo = c.memo, !.pc = "done", !.status = 204],
                    c.kv, c.store)

\* selectBucketForUpload(size), then putObject: await client.fetch(url, PUT)
RaceUpload(i) ==
    LET w == call.w[i]
        targetBucket == SelectBucketForUpload(Configs, w.memo.val, w.size, strategy,
                                              maxBytes)
    IN  /\ call.op = "race" /\ w.method = "PUT"
        /\ w.pc = "cleaned" \/ (w.pc = "located" /\ w.existing = NoEntry)
        /\ IF targetBucket = NoBucket
           THEN RaceStep(i, [w EXCEPT !.pc = "done", !.status = 507], kv, store)
           ELSE RaceStep(i, [w EXCEPT !.pc = "uploaded", !.target = targetBucket,
                                      !.seen = kv], kv,
                         BackendPut(store, targetBucket, w.key, w.size, w.t))

\* putObject: index[key] = {...}; await this.saveIndex(index)
RaceRecordPut(i) ==
    LET w == call.w[i]
        meta == [key |-> w.key, bucket |-> w.target, size |-> w.size,
                 lastModified |-> w.t, etag |-> StripQuotes(ETagOf(w.t)),
                 versionId |-> VersionHeader(w.target, w.t)]
        c == SaveIndex(RaceContext(i), IndexSet(w.memo.val, meta))
    IN  /\ call.op = "race" /\ w.pc = "uploaded"
        /\ RaceStep(i, [w EXCEPT !.memo = c.memo, !.pc = "done", !.status = 200],
                    c.kv, c.store)

NextRace ==
    \E i \in {1, 2} :
        \/ RaceLocate(i)
        \/ RacePhysicalDelete(i)
        \/ RaceRecordDelete(i)
        \/ RaceUpload(i)
        \/ RaceRecordPut(i)

SpecRace == InitRace /\ [][NextRace]_vars

----------------------------------------------------------------------------
(* Properties of two writers *)

RaceDone == call.op = "race" /\ \A i \in {1, 2} : call.w[i].pc = "done"

\* The request changed the index and was answered with success.
Wrote(w) == w.status \in {200, 204} /\ (w.method = "DELETE" => w.existing # NoEntry)

\* The persisted index shows the request's change.
ChangePersisted(w) ==
    IF w.method = "PUT"
    THEN /\ IndexGet(kv.val, w.key).bucket = w.target
         /\ IndexGet(kv.val, w.key).lastModified = w.t
    ELSE IndexGet(kv.val, w.key) = NoEntry

\* C20: two writers on different keys that run one after the other both leave
\* their change in the persisted index (run at once, one change can be lost:
\* the state LostUpdate).
SequentialWritesKept ==
    (RaceDone /\ ~call.overlap) =>
        \A i \in {1, 2} : Wrote(call.w[i]) => ChangePersisted(call.w[i])

\* Both requests completed with success, and the persisted index lacks the
\* change of request 1 to key x.
LostUpdate ==
    /\ RaceDone /\ call.overlap
    /\ Wrote(call.w[1]) /\ Wrote(call.w[2])
    /\ ~ChangePersisted(call.w[1])
    /\ ChangePersisted(call.w[2])

\* C21: write ordering.  The index a PUT or DELETE changes and persists was
\* read from the index store after the request's physical call was answered:
\* on every other key it says what the index store said at that point.
ReloadAfterPhysicalCall ==
    call.op = "race" =>
        \A i \in {1, 2} :
            LET w == call.w[i]
            IN  (w.pc = "done" /\ Wrote(w)) =>
                    \A k \in Keys \ {w.key} :
                        IndexGet(w.memo.val, k) = IndexGet(w.seen.val, k)

----------------------------------------------------------------------------
(* Properties of the order of a request's calls *)

\* The request handled by the step was a PUT of a key the loaded index had.
Overwrite == resp.method = "PUT" /\ resp.prior # NoEntry

\* C22: overwrite ordering.  A PUT of a key the index has an entry for sends
\* its physical PUT only after a physical delete of the prior object, addressed
\* to the backend and with the version id of the index entry, was answered.
OverwriteOrdering ==
    (Overwrite /\ CallsOf("PUT") # {}) =>
        /\ resp.delOut \in {"ok", "err"}
        /\ \E d \in CallsOf("DELETE") :
              /\ trace[d] = Call("DELETE", resp.prior.bucket, resp.key,
                                 resp.prior.versionId)
              /\ \A p \in CallsOf("PUT") : d < p /\ trace[p].b = resp.target

\* A key moves off the version-keeping backend: the delete named its version.
OverwriteOrderingWitness ==
    /\ Overwrite /\ resp.status = 200
    /\ resp.prior.bucket # resp.target
    /\ resp.prior.versionId # NoVer
    /\ Len(trace) = 4

CleanupFailureNotPropagated ==
    (Overwrite /\ resp.delOut \in {"err", "throw"}) =>
        \/ resp.status = 507
        \/ resp.putOut = "err"
        \/ /\ resp.status = 200
           /\ Retrievable(store, resp.target, resp.key)
           /\ IndexGet(kv.val, resp.key).bucket = resp.target

\* C25: a DELETE of an indexed key sends the physical delete to the backend of
\* the index entry, by key and with the recorded version id, before the index
\* changes; when the request has ended the key is in neither the manager's
\* index nor the persisted one, and a later locateFile does not find it.
DeleteRemovesKey ==
    (resp.method = "DELETE" /\ resp.prior # NoEntry) =>
        /\ \E d \in CallsOf("DELETE") :
              /\ trace[d] = Call("DELETE", resp.prior.bucket, resp.key,
                                 resp.prior.versionId)
              /\ \A p \in CallsOf("kv.put") : p > d \/ trace[p - 1].op = "LIST"
        /\ IndexGet(memo.val, resp.key) = NoEntry
        /\ kv.has /\ IndexGet(kv.val, resp.key) = NoEntry
        /\ FreshLocate(resp.key) = NoEntry

\* The calls of a request's trace that list a backend.
ListCalls(calls) == {i \in 1..Len(calls) : calls[i].op = "LIST"}

\* C26: index lifecycle.  A request's first index access reads the index
\* store once; it lists the backends (a full rebuild, saved before anything
\* else is done) exactly when the store holds no index, and otherwise works on
\* the stored copy; the later accesses of the request are served from the
\* manager's copy (the store is not read again, and an overwritten key, which
\* the manager's copy had dropped, comes last in the saved index).  clearIndex
\* leaves no index in the store and none in the manager.
IndexLifecycle ==
    [][(now' = now + 1) =>
          /\ resp'.method \in {"PUT", "DELETE"} =>
                /\ {i \in 1..Len(trace') : trace'[i].op = "kv.get"} = {1}
                /\ (ListCalls(trace') # {}) <=> ~kv.has
                /\ kv.has => resp'.prior = IndexGet(kv.val, resp'.key)
                /\ ~kv.has =>
                      /\ ListCalls(trace') = 2..(Len(Configs) + 1)
                      /\ trace'[Len(Configs) + 2].op = "kv.put"
                /\ (resp'.method = "PUT" /\ resp'.status = 200) =>
                      kv'.val[Len(kv'.val)].key = resp'.key
          /\ resp'.method = "CLEAR" => (kv' = Null /\ memo' = Null)]_vars

\* A PUT on the index store that clearIndex emptied: the rebuild found the
\* object of the PUT before the clear.
IndexLifecycleWitness ==
    /\ resp.method = "PUT" /\ resp.status = 200
    /\ resp.cold /\ now = MaxClock
    /\ ListCalls(trace) # {}
    /\ Len(kv.val) = 2

----------------------------------------------------------------------------
(* rebuildIndex step by step.  One listing task per backend; a task gives    *)
(* way where it awaits a page of its listing, so the pages of the tasks are  *)
(* answered in any order.  The backends do not change during a rebuild.      *)

\* The most entries of one page of a ?versions listing (max-keys).
PageSize == 1

\* XMLParser.parse on the text of a tag (fast-xml-parser): the text as a
\* string, or, with the parser's value parsing on, 'true' and 'false' as
\* booleans.  The test of IsLatest allows for both.
Parsers == {"text", "typed"}

Str(text) == [type |-> "string", val |-> text]

Bool(text) == [type |-> "boolean", val |-> text]

ParseTagValue(parser, text) ==
    IF parser = "typed" /\ text \in {"true", "false"} THEN Bool(text) ELSE Str(text)

\* The ?versions listing of backend b in full: every version and delete marker,
\* by key, the newest of a key first and flagged as the latest.
RECURSIVE AllVersions(_, _, _)
AllVersions(st, b, keys) ==
    IF keys = <<>> THEN <<>>
    ELSE LET k == Head(keys)
             n == Len(st[b][k])
         IN  [i \in 1..n |->
                 LET v == st[b][k][n + 1 - i]
                 IN  [key |-> k, ver |-> v.ver, size |-> v.size, etag |-> v.etag,
                      lastModified |-> v.lastModified, marker |-> v.marker,
                      latest |-> (i = 1)]]
             \o AllVersions(st, b, Tail(keys))

\* The parsed ListVersionsResult of GET /b/?versions[&key-marker=&version-id-marker=]:
\* the page after the marker.  Delete markers are DeleteMarker elements, the
\* rest Version elements.
ListVersionsResult(parser, st, b, keyMarker, versionIdMarker) ==
    LET raw == AllVersions(st, b, KeyOrder)
        from == IF keyMarker = NoKey THEN 0
                ELSE CHOOSE i \in 1..Len(raw) :
                         raw[i].key = keyMarker /\ raw[i].ver = versionIdMarker
        to == IF from + PageSize < Len(raw) THEN from + PageSize ELSE Len(raw)
        page == SubSeq(raw, from + 1, to)
        IsVersion(e) == ~e.marker
        versions == SelectSeq(page, IsVersion)
    IN  [Version |-> [i \in 1..Len(versions) |->
                         [Key |-> versions[i].key, Size |-> versions[i].size,
                          LastModified |-> versions[i].lastModified,
                          ETag |-> versions[i].etag, VersionId |-> versions[i].ver,
                          IsLatest |-> ParseTagValue(parser,
                                          IF versions[i].latest THEN "true" ELSE "false")]],
         IsTruncated |-> ParseTagValue(parser, IF to < Len(raw) THEN "true" ELSE "false"),
         NextKeyMarker |-> IF to < Len(raw) THEN raw[to].key ELSE NoKey,
         NextVersionIdMarker |-> IF to < Len(raw) THEN raw[to].ver ELSE NoVer]

\* The entries rebuildIndex writes for the versions of one page.
LatestOfPage(parsed, b) ==
    LET IsLatest(v) == v.IsLatest = Str("true") \/ v.IsLatest = Bool("true")
        latest == SelectSeq(parsed.Version, IsLatest)
    IN  [i \in 1..Len(latest) |->
            [key |-> latest[i].Key, bucket |-> b, size |-> latest[i].Size,
             lastModified |-> latest[i].LastModified, etag |-> latest[i].ETag,
             versionId |-> latest[i].VersionId]]

\* A listing task as it starts: no marker.
ListingTask == [pc |-> "fetching", keyMarker |-> NoKey, versionIdMarker |-> NoVer,
                failed |-> FALSE]

ListCall(b) == Call("LIST", b, NoKey, NoVer)

\* What the backends can hold as a rebuild starts: on the version-keeping
\* backend a key has no version, one, two, or one under a delete marker.
RebuildStores ==
    LET stacksA == {<<>>, <<Version(1, 1, ETagOf(1), 1, FALSE)>>,
                    <<Version(1, 1, ETagOf(1), 1, FALSE),
                      Version(2, 2, ETagOf(2), 2, FALSE)>>,
                    <<Version(1, 1, ETagOf(1), 1, FALSE),
                      Version(2, 0, NoHeader, 2, TRUE)>>}
        stacksB == {<<>>, <<Version(NoVer, 1, ETagOf(3), 3, FALSE)>>}
    IN  {[b \in Backends |-> IF b = "A" THEN a ELSE bb] :
            a \in [Keys -> stacksA], bb \in [Keys -> stacksB]}

\* rebuildIndex() is entered on an empty index store by a manager without an
\* index: newIndex is empty and every task has sent for its first page.
InitRebuild ==
    /\ store \in RebuildStores
    /\ kv = Null /\ memo = Null
    /\ now = 0 /\ resp = NoResp /\ purged = {}
    /\ strategy = "fill-first"
    /\ trace = [i \in 1..Len(Configs) |-> ListCall(Configs[i])]
    /\ \E parser \in Parsers :
          call = [op |-> "rebuild", parser |-> parser, newIndex |-> <<>>,
                  task |-> [b \in Backends |-> ListingTask],
                  finished |-> <<>>, pages |-> <<>>, phase |-> "listing"]
    /\ result = Idle

\* A faulty page step: the index built so far is saved after every page.
ListPageAnsweredSavingEach(b) ==
    LET t == call.task[b]
        res == ListVersionsResult(call.parser, store, b, t.keyMarker, t.versionIdMarker)
        metas == LatestOfPage(res, b)
        newIndex == SetAll(call.newIndex, metas)
        keyMarker == IF res.IsTruncated = Str("true") THEN res.NextKeyMarker ELSE NoKey
    IN  /\ call.op = "rebuild" /\ t.pc = "fetching"
        /\ call' = [call EXCEPT
                      !.newIndex = newIndex,
                      !.task[b] = [t EXCEPT !.keyMarker = keyMarker,
                                            !.pc = IF keyMarker # NoKey THEN "fetching"
                                                   ELSE "done"],
                      !.finished = IF keyMarker # NoKey THEN @ ELSE Append(@, b),
                      !.pages = Append(@, [b |-> b, keys |-> IndexKeys(metas)])]
        /\ kv' = Some(newIndex) /\ memo' = Some(newIndex)
        /\ trace' = Append(trace, KvCall("kv.put"))
        /\ UNCHANGED <<store, now, strategy, resp, purged, result>>

\* One turn of a task's loop, the page answered 2xx: the versions flagged
\* latest go into newIndex; the task sends for the next page when the result
\* is truncated and names a key marker, and has finished otherwise.
ListPageAnswered(b) ==
    LET t == call.task[b]
        res == ListVersionsResult(call.parser, store, b, t.keyMarker, t.versionIdMarker)
        metas == LatestOfPage(res, b)
        truncated == res.IsTruncated = Str("true")
        keyMarker == IF truncated THEN res.NextKeyMarker ELSE NoKey
        versionIdMarker == IF truncated THEN res.NextVersionIdMarker
                           ELSE t.versionIdMarker
    IN  /\ call.op = "rebuild" /\ t.pc = "fetching"
        /\ call' = [call EXCEPT
                      !.newIndex = SetAll(@, metas),
                      !.task[b] = [t EXCEPT !.keyMarker = keyMarker,
                                            !.versionIdMarker = versionIdMarker,
                                            !.pc = IF keyMarker # NoKey THEN "fetching"
                                                   ELSE "done"],
                      !.finished = IF keyMarker # NoKey THEN @ ELSE Append(@, b),
                      !.pages = Append(@, [b |-> b, keys |-> IndexKeys(metas)])]
        /\ trace' = IF keyMarker # NoKey THEN Append(trace, ListCall(b)) ELSE trace
        /\ UNCHANGED <<kv, store, now, strategy, memo, resp, purged, result>>

\* One turn of a task's loop, the page answered non-2xx or the call throwing:
\* the task leaves its loop.
ListPageFailed(b) ==
    LET t == call.task[b]
    IN  /\ call.op = "rebuild" /\ t.pc = "fetching"
        /\ call' = [call EXCEPT
                      !.task[b] = [t EXCEPT !.pc = "done", !.failed = TRUE],
                      !.finished = Append(@, b)]
        /\ UNCHANGED <<kv, store, now, strategy, memo, resp, trace, purged, result>>

\* await Promise.all(promises); await this.saveIndex(newIndex)
SaveRebuilt ==
    LET c == SaveIndex([kv |-> kv, store |-> store, memo |-> memo, trace |-> trace,
                        purged |-> purged, threw |-> FALSE], call.newIndex)
    IN  /\ call.op = "rebuild" /\ call.phase = "listing"
        /\ \A b \in Backends : call.task[b].pc = "done"
        /\ call' = [call EXCEPT !.phase = "saved"]
        /\ kv' = c.kv /\ memo' = c.memo /\ trace' = c.trace
        /\ UNCHANGED <<store, now, strategy, resp, purged, result>>

NextRebuild ==
    \/ \E b \in Backends : ListPageAnswered(b)
    \/ \E b \in Backends : ListPageFailed(b)
    \/ SaveRebuilt

SpecRebuild == InitRebuild /\ [][NextRebuild]_vars

----------------------------------------------------------------------------
(* Properties of rebuildIndex *)

RebuildSaved == call.op = "rebuild" /\ call.phase = "saved"

\* The pages answered during the rebuild on which backend b reported key k as
\* latest, by their place in the order of the answers.
Reports(k, b) ==
    {j \in 1..Len(call.pages) : call.pages[j].b = b /\ k \in call.pages[j].keys}

\* C27: during rebuildIndex the index store is written once, after every
\* listing task has finished; while a task is running neither the index store
\* nor the manager holds the map under construction.
RebuildSavesOnce ==
    call.op = "rebuild" =>
        /\ Cardinality(CallsOf("kv.put")) <= 1
        /\ (\E b \in Backends : call.task[b].pc # "done") =>
              (CallsOf("kv.put") = {} /\ ~kv.has /\ ~memo.has)
        /\ call.phase = "saved" =>
              /\ \A b \in Backends : call.task[b].pc = "done"
              /\ CallsOf("kv.put") = {Len(trace)}
              /\ kv = Some(call.newIndex) /\ memo = kv

\* A rebuild saved after one task failed and the other listed an object.
RebuildSavesOnceWitness ==
    /\ RebuildSaved
    /\ \E b \in Backends : call.task[b].failed
    /\ Len(kv.val) > 0

RebuildContent ==
    (/\ RebuildSaved
     /\ \A b \in Backends : ~call.task[b].failed
     /\ \A k \in Keys : Cardinality({b \in Backends : Retrievable(store, b, k)}) <= 1)
        => /\ IndexKeys(kv.val) = {k \in Keys : \E b \in Backends : Retrievable(store, b, k)}
           /\ \A k \in Keys, b \in Backends :
                 Retrievable(store, b, k) =>
                     LET e == IndexGet(kv.val, k)
                         v == store[b][k][Len(store[b][k])]
                     IN  /\ e.bucket = b
                         /\ e.size = v.size
                         /\ e.versionId = v.ver

\* The pages of the ?versions listing of backend b.
PagesOf(b) ==
    LET n == Len(AllVersions(store, b, KeyOrder))
    IN  IF n = 0 THEN 1 ELSE (n + PageSize - 1) \div PageSize

\* C31: rebuild pagination.  A listing task whose calls all succeed asks for
\* page after page until the listing is exhausted: when the tasks have
\* finished, every page of every backend has been read.
EveryPageRead ==
    (/\ call.op = "rebuild"
     /\ \A b \in Backends : call.task[b].pc = "done" /\ ~call.task[b].failed)
        => \A b \in Backends :
              Cardinality({j \in 1..Len(call.pages) : call.pages[j].b = b}) = PagesOf(b)

----------------------------------------------------------------------------
(* Reads: GET and HEAD of an object, with the edge content cache in front of *)
(* GET.  The cache maps a request (here: its key) to a stored response; a    *)
(* response is told by the time its object was written.  The cache is held   *)
(* in `result`, which the writing requests leave alone.                      *)

\* The number of GET and HEAD requests of a behaviour.
MaxReads == 2

\* How a backend GET ends: an answer of the backend's own (the object, or 404
\* when it has none), a 5xx answer, or fetch throwing.
GetOutcomes == {"ok", "err", "throw"}

\* No stored response, no body.
NoBody == 0

\* cache.match(request): the stored response, if any.
CacheMatch(cache, key) == cache[key]

\* cache.put(request, response.clone())
CachePut(cache, key, body) == [cache EXCEPT ![key] = body]

\* getObject(bucketName, key, range) without a Range header: the backend's
\* answer is handed on with its status.
GetObject(c, bucketName, key, out) ==
    IF bucketName \notin Backends THEN Thrown(c)
    ELSE
    LET sent == [c EXCEPT !.trace = Append(@, Call("GET", bucketName, key, NoVer))]
        stack == c.store[bucketName][key]
    IN  [c |-> IF out = "throw" THEN Thrown(sent) ELSE sent,
         status |-> IF out = "err" THEN 503
                    ELSE IF Retrievable(c.store, bucketName, key) THEN 200 ELSE 404,
         body |-> IF out = "ok" /\ Retrievable(c.store, bucketName, key)
                  THEN stack[Len(stack)].lastModified ELSE NoBody]

ReadResp(method, key, status, prior, body, fromCache, getOut, cold) ==
    [method |-> method, key |-> key, status |-> status, prior |-> prior,
     body |-> body, fromCache |-> fromCache, getOut |-> getOut, cold |-> cold]

\* A read ends: the clock of the writes stands still.
FinishRead(c, r, cache) ==
    /\ kv' = c.kv
    /\ store' = c.store
    /\ memo' = c.memo
    /\ trace' = c.trace
    /\ purged' = c.purged
    /\ resp' = r
    /\ result' = [result EXCEPT !.cache = cache, !.reads = @ + 1]
    /\ UNCHANGED <<now, strategy, call>>

\* HEAD /{key}: locateFile, then an answer made from the index entry.
HeadObject(key) ==
    /\ result.op = "edge" /\ result.reads < MaxReads
    /\ \E rb \in LoadChoices(C0) :
        LET c1 == LoadIndex(C0, FALSE, rb)
            fileInfo == LocateFile(c1, key)
        IN  FinishRead(c1, ReadResp("HEAD", key, IF fileInfo = NoEntry THEN 404 ELSE 200,
                                    fileInfo, NoBody, FALSE, "none", ~kv.has),
                       result.cache)

\* GET /{key}: the edge cache first; then locateFile and the backend's object,
\* which is handed to the cache when its status is 200 (the cache may keep it
\* or not).
Get(key) ==
    /\ result.op = "edge" /\ result.reads < MaxReads
    /\ LET cachedRes == CacheMatch(result.cache, key)
       IN  IF cachedRes # NoBody
           THEN FinishRead(C0, ReadResp("GET", key, 200, NoEntry, cachedRes, TRUE,
                                        "none", ~kv.has), result.cache)
           ELSE \E rb \in LoadChoices(C0) :
                   LET c1 == LoadIndex(C0, FALSE, rb)
                       fileInfo == LocateFile(c1, key)
                   IN  IF fileInfo = NoEntry
                       THEN FinishRead(c1, ReadResp("GET", key, 404, NoEntry, NoBody,
                                                    FALSE, "none", ~kv.has),
                                       result.cache)
                       ELSE \E out \in GetOutcomes, kept \in BOOLEAN :
                               LET got == GetObject(c1, fileInfo.bucket, key, out)
                                   status == IF got.c.threw THEN 500 ELSE got.status
                               IN  FinishRead(got.c,
                                      ReadResp("GET", key, status, fileInfo,
                                               IF got.c.threw THEN NoBody ELSE got.body,
                                               FALSE, out, ~kv.has),
                                      IF status = 200 /\ kept
                                      THEN CachePut(result.cache, key, got.body)
                                      ELSE result.cache)

\* A new deployment with an empty edge cache.
InitEdge ==
    /\ kv = Null
    /\ InitBase
    /\ strategy \in Strategies
    /\ call = Idle
    /\ result = [op |-> "edge", cache |-> [k \in Keys |-> NoBody], reads |-> 0]

NextEdge ==
    \/ \E key \in Keys, size \in Sizes : Put(key, size)
    \/ \E key \in Keys : Delete(key)
    \/ ClearIndex
    \/ \E key \in Keys : Get(key)
    \/ \E key \in Keys : HeadObject(key)

SpecEdge == InitEdge /\ [][NextEdge]_vars

----------------------------------------------------------------------------
(* Properties of the reads *)

\* A step that handles a HEAD request: locateFile and nothing else.
LocateStep ==
    /\ result.op = "edge" /\ result'.reads = result.reads + 1
    /\ resp'.method = "HEAD"

\* C32 as stated: in every state, an empty index store included, locateFile
\* leaves the index store, the backends and the index entries as they were
\* and returns the entry of the key, or not found.
LocateFileChangesNothing ==
    [][LocateStep =>
          /\ kv' = kv
          /\ store' = store
          /\ resp'.prior = IndexGet(kv.val, resp'.key)
          /\ resp'.status = IF resp'.prior = NoEntry THEN 404 ELSE 200]_vars

\* C32, amended: the same when the index store holds an index; on an empty
\* index store the load behind locateFile lists the backends and persists the
\* rebuilt index, the backends stay as they were, and locateFile returns the
\* entry of the rebuilt index.
LocateFileFrame ==
    [][LocateStep =>
          /\ store' = store /\ purged' = purged
          /\ \A i \in 1..Len(trace') : trace'[i].op \in {"kv.get", "LIST", "kv.put"}
          /\ kv.has => (kv' = kv /\ trace' = <<KvCall("kv.get")>>)
          /\ ~kv.has => (kv'.has /\ ListCalls(trace') # {})
          /\ memo' = kv'
          /\ resp'.prior = IndexGet(kv'.val, resp'.key)
          /\ resp'.status = IF resp'.prior = NoEntry THEN 404 ELSE 200]_vars

\* locateFile found the entry of a key in a persisted index of two entries.
LocateFileFrameWitness ==
    /\ result.op = "edge" /\ resp.method = "HEAD" /\ resp.status = 200
    /\ ~resp.cold
    /\ Len(kv.val) = 2
    /\ trace = <<KvCall("kv.get")>>

\* A step that handles a GET of the key of the request before it.
ReadOfLastWritten ==
    /\ result.op = "edge" /\ result'.reads = result.reads + 1
    /\ resp'.method = "GET" /\ resp'.key = resp.key
    /\ resp'.getOut \in {"none", "ok"}

\* C36: read after write through the edge cache.  The GET that follows a
\* completed DELETE of its key is answered 404; the GET that follows a
\* completed overwriting PUT of its key returns the object that PUT wrote.
ReadAfterWrite ==
    [][ReadOfLastWritten =>
          /\ (resp.method = "DELETE" /\ resp.status = 204) => resp'.status = 404
          /\ (resp.method = "PUT" /\ resp.status = 200 /\ resp.prior # NoEntry) =>
                (resp'.status = 200 /\ resp'.body = now)]_vars

----------------------------------------------------------------------------
(* Properties of failed and concurrent uploads *)

\* The bytes of the objects backend b holds.
PhysicalUsage(b) ==
    SumSeq([i \in 1..Len(KeyOrder) |->
               IF Retrievable(store, b, KeyOrder[i])
               THEN store[b][KeyOrder[i]][Len(store[b][KeyOrder[i]])].size
               ELSE 0])

\* C33: the placement ceiling under interleaving.  When two requests on
\* different keys have run at once and both have ended, no backend holds more
\* bytes than the ceiling.
CeilingUnderInterleaving ==
    RaceDone => \A b \in Backends : PhysicalUsage(b) <= maxBytes

\* C34: a PUT of an indexed key that does not succeed (507, or the upload
\* refused) leaves things as they were: the prior object is on its backend
\* and the persisted index maps the key to it.
FailedOverwriteKeepsOld ==
    (Overwrite /\ (resp.status = 507 \/ resp.putOut = "err")) =>
        /\ IndexGet(kv.val, resp.key) = resp.prior
        /\ Retrievable(store, resp.prior.bucket, resp.key)
        /\ LET stack == store[resp.prior.bucket][resp.key]
           IN  stack[Len(stack)].lastModified = resp.prior.lastModified

\* C35: every entry of the persisted index and of the manager's index names
\* a registered backend; the target a PUT selects, and what
\* selectBucketForUpload gives on the persisted index for any size, is null or
\* a registered backend.
RegisteredBuckets ==
    /\ \A i \in 1..Len(kv.val) : kv.val[i].bucket \in Backends
    /\ \A i \in 1..Len(memo.val) : memo.val[i].bucket \in Backends
    /\ resp.method = "PUT" => resp.target \in Backends \cup {NoBucket}
    /\ \A size \in Sizes :
          SelectBucketForUpload(Configs, kv.val, size, strategy, maxBytes)
              \in Backends \cup {NoBucket}

\* The index has entries on both backends after a PUT.
RegisteredBucketsWitness ==
    /\ resp.method = "PUT" /\ resp.status = 200
    /\ Len(kv.val) = 2
    /\ kv.val[1].bucket # kv.val[2].bucket

====
